---- MODULE Spec2Model ----
(***************************************************************************)
(* The external-data layer of the economic dashboard: the two providers    *)
(* (CryptoDataProvider, WorldBankDataProvider), their TTL caches and       *)
(* sleep-based rate limiters, and the FastAPI handlers that run them in    *)
(* the thread pool.                                                        *)
(*                                                                         *)
(* Time is the wall clock in whole seconds (`now`); it advances by Tick.   *)
(* A worker thread is at one of the program points (pc) of the call it     *)
(* runs; the upstream HTTP response is an input chosen when it arrives.    *)
(***************************************************************************)
EXTENDS Integers, Sequences, FiniteSets, TLC

\* ------------------------------------------------------------------ bounds
NumThreads == 2          \* worker threads of the pool that the model runs
MaxCalls == 2            \* HTTP requests served per run
StartTime == 100         \* time.time() when the process starts (epoch clock)
MaxTicks == 3            \* clock advances per run

\* ------------------------------------------------- program constants
CryptoCacheTtl == 600
CryptoMinRequestInterval == 5
MaxPerPage == 100
MaxDays == 30
WBCacheTtl == 1800
WBMinRequestInterval == 10
MaxCountries == 8
MaxIndicators == 4
MaxTrendIndicators == 2
LogCap == 100

Threads == 1..NumThreads

\* Python's None, as a cached value and as a missing result.
None == "None"
\* None where a timestamp is expected.
NoneTime == 0 - 1

VARIABLES
    now,            \* wall clock (time.time() and datetime.now()), seconds
    ticks,          \* clock advances so far
    calls,          \* HTTP requests accepted so far
    workload,       \* the endpoints the run's traffic goes to
    pc,             \* pc[t]: program point of thread t
    req,            \* req[t]: the HTTP request thread t serves
    wake,           \* wake[t]: end of time.sleep(delay)
    outcome,        \* outcome[t]: what the provider call returned or raised
    http,           \* http[t]: the HTTP response thread t sends
    answer,         \* answer[t]: the upstream answer thread t got last
    idx,            \* idx[t]: position in the per-indicator loop
    all_data,       \* all_data[t]: indicator codes that delivered records
    own,            \* own[t]: the WorldBankDataProvider() the handler built
    crypto_cache,   \* CryptoDataProvider._cache: key -> [time, data]
    crypto_last,    \* CryptoDataProvider._last_request_time
    crypto_reqs,    \* start times of the upstream requests to CoinGecko
    wb_cache,       \* shared WorldBankDataProvider._cache
    wb_last,        \* shared WorldBankDataProvider._last_request_time
    wb_reqs,        \* start times of the shared provider's upstream requests
    server_logs,    \* main.server_logs: the types of the entries, in order
    fetched,        \* key -> when get_economic_indicators last returned
                    \* fetched records for it, on any provider instance
    main_cached_data, \* main.cached_data (load_data's global)
    files,          \* the data directory: file name -> content
    generated,      \* generate_all_data runs so far
    csv_reads       \* passes of load_data over the CSV files so far

clockVars == <<now, ticks>>
threadVars == <<pc, req, wake, outcome, http, idx, all_data, own>>
cryptoVars == <<crypto_cache, crypto_last, crypto_reqs>>
wbVars == <<wb_cache, wb_last, wb_reqs>>
auxVars == <<answer, fetched>>
dataVars == <<main_cached_data, files, generated, csv_reads>>
vars == <<now, ticks, calls, workload, pc, req, wake, outcome, http, answer,
          idx, all_data, own, crypto_cache, crypto_last, crypto_reqs,
          wb_cache, wb_last, wb_reqs, server_logs, fetched, main_cached_data,
          files, generated, csv_reads>>

\* ------------------------------------------------------------ upstream
\* What CoinGecko can answer: no answer in time, no connection, an error
\* status, or 200 with a body.  "list_a"/"list_empty" are JSON arrays,
\* "dict_a" a JSON object, "null" the JSON null, "invalid" is not JSON.
Bodies == {"list_a", "list_empty", "dict_a", "null", "invalid"}

Net(kind) == [kind |-> kind, status |-> 0, body |-> ""]
Http(status, body) == [kind |-> "http", status |-> status, body |-> body]

UpstreamResponses ==
    {Net("timeout"), Net("connection_error"), Http(429, ""), Http(500, "")}
        \cup {Http(200, b) : b \in Bodies}

\* resp.json(): the body parsed; JSON null parses to None.
ParseJson(body) == IF body = "null" THEN None ELSE body

IsList(data) == data \in {"list_a", "list_empty"}
IsDict(data) == data \in {"dict_a"}

\* The exception class resp.json() raises on a body that is not JSON:
\* requests.exceptions.JSONDecodeError (a RequestException) in requests
\* >= 2.27, a plain ValueError before.
JsonErrorClasses == {"RequestException", "Exception"}

\* The answer of api.worldbank.org, in the shape of the CoinGecko answers.
WBAnswer(resp) == [kind |-> "worldbank", status |-> 0, body |-> resp]
NoAnswer == [kind |-> "none", status |-> 0, body |-> ""]

NoOutcome == [kind |-> "none", val |-> ""]
Return(data) == [kind |-> "return", val |-> data]
Raise(exc) == [kind |-> "raise", val |-> exc]

\* ------------------------------------------------------ HTTP requests

NoRequest == [endpoint |-> ""]

MarketsRequest(currency, per_page) ==
    [endpoint |-> "markets", currency |-> currency, per_page |-> per_page]
HistoryRequest(coin_id, currency, days) ==
    [endpoint |-> "history", coin_id |-> coin_id, currency |-> currency,
     days |-> days]
GlobalRequest == [endpoint |-> "global"]

\* The requests the model sends: two per_page values above and at the cap
\* (one cache key), a second currency, a coin history and the global data.
CryptoRequests ==
    {MarketsRequest("usd", 100), MarketsRequest("usd", 250),
     MarketsRequest("eur", 100), HistoryRequest("bitcoin", "usd", 30),
     GlobalRequest}

NoResponse == [status |-> 0, data |-> "", last_update |-> NoneTime]

\* ------------------------------------------------ CryptoDataProvider
Min(a, b) == IF a < b THEN a ELSE b

\* f'{v}' of a non-negative integer: its decimal digits.
DigitChars == <<"0", "1", "2", "3", "4", "5", "6", "7", "8", "9">>

RECURSIVE Fmt(_)
Fmt(n) ==
    IF n < 10 THEN <<DigitChars[n + 1]>>
    ELSE Fmt(n \div 10) \o <<DigitChars[(n % 10) + 1]>>

\* sorted(params.items()): the items by parameter name, in alphabetical
\* order (`order` lists the names a method uses, sorted).
RECURSIVE SortedItems(_, _, _)
SortedItems(params, order, i) ==
    IF i > Len(order) THEN <<>>
    ELSE (IF order[i] \in DOMAIN params
             THEN << <<order[i], params[order[i]]>> >>
             ELSE <<>>) \o SortedItems(params, order, i + 1)

CryptoParamOrder ==
    <<"days", "interval", "order", "page", "per_page",
      "price_change_percentage", "sparkline", "vs_currency">>

\* _get_cache_key: the endpoint followed by the sorted k=v items.
Crypto_get_cache_key(endpoint, params) ==
    <<endpoint, SortedItems(params, CryptoParamOrder, 1)>>

MarketParams(currency, per_page) ==
    [vs_currency |-> <<currency>>, order |-> <<"market_cap_desc">>,
     per_page |-> Fmt(Min(per_page, MaxPerPage)), page |-> Fmt(1),
     sparkline |-> <<"false">>, price_change_percentage |-> <<"24h">>]

HistoryParams(currency, days) ==
    [vs_currency |-> <<currency>>, days |-> Fmt(Min(days, MaxDays)),
     interval |-> <<"daily">>]

GlobalParams == <<>>

\* The endpoint string each provider method passes to _get_cache_key.
CryptoEndpoint(r) ==
    CASE r.endpoint = "markets" -> <<"coins/markets">>
      [] r.endpoint = "history" -> <<"coins/", r.coin_id, "/market_chart">>
      [] OTHER -> <<"global">>

CryptoParams(r) ==
    CASE r.endpoint = "markets" -> MarketParams(r.currency, r.per_page)
      [] r.endpoint = "history" -> HistoryParams(r.currency, r.days)
      [] OTHER -> GlobalParams

CryptoKeyOf(r) == Crypto_get_cache_key(CryptoEndpoint(r), CryptoParams(r))

CryptoKeys == {CryptoKeyOf(r) : r \in CryptoRequests}

Crypto_is_cache_valid(cache, k) ==
    IF k \notin DOMAIN cache THEN FALSE
    ELSE now - cache[k].time < CryptoCacheTtl

Crypto_get_from_cache(cache, k) ==
    IF Crypto_is_cache_valid(cache, k) THEN cache[k].data ELSE None

\* A cache that keeps the newest entry only.
Crypto_save_newest(cache, k, data) ==
    [x \in {k} |-> [time |-> now, data |-> data]]

Crypto_save_to_cache(cache, k, data) ==
    [x \in DOMAIN cache \cup {k} |->
        IF x = k THEN [time |-> now, data |-> data] ELSE cache[x]]

\* get_last_update_time: the entry's timestamp (strftime keeps the whole
\* seconds the model counts in), or None.
Crypto_get_last_update_time(cache, k) ==
    IF k \in DOMAIN cache THEN cache[k].time ELSE NoneTime


\* --------------------------------------------- WorldBankDataProvider
\* self.indicators, in the order of the dict: <<friendly name, code>>.
Indicators ==
    << <<"GDP", "NY.GDP.MKTP.CD">>,
       <<"GDP_PER_CAPITA", "NY.GDP.PCAP.CD">>,
       <<"INFLATION", "FP.CPI.TOTL.ZG">>,
       <<"UNEMPLOYMENT", "SL.UEM.TOTL.ZS">>,
       <<"EXPORTS", "NE.EXP.GNFS.CD">>,
       <<"IMPORTS", "NE.IMP.GNFS.CD">>,
       <<"POPULATION", "SP.POP.TOTL">>,
       <<"LIFE_EXPECTANCY", "SP.DYN.LE00.IN">>,
       <<"INTERNET_USERS", "IT.NET.USER.ZS">>,
       <<"EDUCATION_EXPENDITURE", "SE.XPD.TOTL.GD.ZS">> >>

\* list(self.countries.keys())
Countries ==
    <<"UA", "US", "DE", "FR", "GB", "PL", "CN", "JP", "IN", "BR", "CA",
      "AU", "IT", "ES">>

IndicatorNames == {Indicators[i][1] : i \in DOMAIN Indicators}
IndicatorCodes == {Indicators[i][2] : i \in DOMAIN Indicators}

\* self.indicators.get(ind, ind)
CodeOf(ind) ==
    IF ind \in IndicatorNames
       THEN Indicators[CHOOSE i \in DOMAIN Indicators : Indicators[i][1] = ind][2]
       ELSE ind

\* code_to_name.get(code, code)
NameOf(code) ==
    IF code \in IndicatorCodes
       THEN Indicators[CHOOSE i \in DOMAIN Indicators : Indicators[i][2] = code][1]
       ELSE code

\* s[:n]
Take(s, n) == SubSeq(s, 1, Min(Len(s), n))

\* An Optional[List[str]]: None, or a list.
NoneList == [some |-> FALSE, val |-> <<>>]
Some(l) == [some |-> TRUE, val |-> l]

\* str.split(','): a query string is its tokens, "," being a token.
RECURSIVE Split(_)
Split(q) ==
    IF q = <<>> THEN <<"">>
    ELSE IF Head(q) = "," THEN <<"">> \o Split(Tail(q))
    ELSE IF Len(q) = 1 THEN <<Head(q)>>
    ELSE <<Head(q)>> \o Split(Tail(Tail(q)))

\* `x.split(',') if x else None`: an absent or empty parameter is None.
ParseList(q) == IF q = <<>> THEN NoneList ELSE Some(Split(q))

\* f'{v}' of an Optional[List[str]].
FmtList(l) == IF l.some THEN <<"[">> \o l.val \o <<"]">> ELSE <<"None">>

WBParamOrder == <<"country_codes", "end_year", "indicators", "start_year">>

WB_get_cache_key(endpoint, params) ==
    <<endpoint, SortedItems(params, WBParamOrder, 1)>>

WB_is_cache_valid(cache, k) ==
    IF k \notin DOMAIN cache THEN FALSE
    ELSE now - cache[k].time < WBCacheTtl

\* _save_to_cache that keeps results without records out of the cache.
WB_save_fetched(cache, k, data) ==
    IF data.rows = <<>> THEN cache
    ELSE [x \in DOMAIN cache \cup {k} |->
             IF x = k THEN [time |-> now, data |-> data] ELSE cache[x]]

WB_save_to_cache(cache, k, data) ==
    [x \in DOMAIN cache \cup {k} |->
        IF x = k THEN [time |-> now, data |-> data] ELSE cache[x]]

WB_get_last_update_time(cache, k) ==
    IF k \in DOMAIN cache THEN cache[k].time ELSE NoneTime

\* clear_cache leaving the entries in place.
WB_clear_cache_kept(cache) == cache

\* clear_cache: self._cache.clear()
WB_clear_cache(cache) == <<>>

\* WorldBankDataProvider(): an empty cache, _last_request_time = 0.  `reqs`
\* records the start times of the instance's upstream requests.
NewProvider == [cache |-> <<>>, last |-> 0, reqs |-> <<>>]

\* add_server_log without the cut to the last LogCap entries.
add_server_log_unbounded(logs, log_type) == Append(logs, log_type)

\* add_server_log: append, then keep the last LogCap entries.
add_server_log(logs, log_type) ==
    LET appended == Append(logs, log_type)
    IN IF Len(appended) > LogCap
          THEN SubSeq(appended, Len(appended) - LogCap + 1, Len(appended))
          ELSE appended

\* A DataFrame: its columns, and the indicator codes its rows hold values of.
Frame(columns, rows) == [columns |-> columns, rows |-> rows]
IsEmptyFrame(df) == df.rows = <<>>

BaseColumns == <<"Country", "Country_Name", "Year">>
ComparisonColumns == <<"Country", "Year", "Value", "Country_Name">>

\* ------------------------------------------- World Bank HTTP requests
IndicatorsRequest(countries, indicators, start_year, end_year) ==
    [endpoint |-> "indicators", countries |-> countries,
     indicators |-> indicators, start_year |-> start_year,
     end_year |-> end_year]
NormalizedRequest(countries, indicators, start_year, end_year, currency) ==
    [endpoint |-> "normalized", countries |-> countries,
     indicators |-> indicators, start_year |-> start_year,
     end_year |-> end_year, currency |-> currency]
HealthRequest(countries, start_year, end_year) ==
    [endpoint |-> "economic-health", countries |-> countries,
     start_year |-> start_year, end_year |-> end_year]
ComparisonRequest(countries, indicator, years) ==
    [endpoint |-> "comparison", countries |-> countries,
     indicator |-> indicator, years |-> years]
TrendsRequest(country, indicators, years) ==
    [endpoint |-> "trends", country |-> country, indicators |-> indicators,
     years |-> years]
ClearCacheRequest == [endpoint |-> "clear-cache"]

HealthIndicators ==
    <<"GDP_PER_CAPITA", "INFLATION", "UNEMPLOYMENT", "LIFE_EXPECTANCY">>
DefaultTrendIndicators == <<"GDP", "GDP_PER_CAPITA", "INFLATION", "UNEMPLOYMENT">>

\* The requests the model sends.
WBRequests ==
    {IndicatorsRequest(<<"UA">>, <<"GDP">>, 2020, 2023),
     IndicatorsRequest(<<"UA">>, <<"GDP", ",", "INFLATION">>, 2020, 2023),
     NormalizedRequest(<<"UA">>, <<"GDP">>, 2020, 2023, "USD"),
     HealthRequest(<<"UA">>, 2020, 2023),
     ComparisonRequest(<<"UA">>, "GDP_PER_CAPITA", 10),
     ComparisonRequest(<<"UA">>, "BAD", 10),
     TrendsRequest("UA", <<>>, 20),
     TrendsRequest("UA", <<"BAD">>, 20),
     ClearCacheRequest}

\* The handlers that call get_economic_indicators.
EconEndpoints == {"indicators", "normalized", "economic-health"}

\* get_worldbank_provider() is used by /indicators and /clear-cache; the
\* other handlers build a WorldBankDataProvider() of their own.
UsesSharedProvider(r) == r.endpoint \in {"indicators", "clear-cache"}

\* The arguments the handler passes to get_economic_indicators.
CountryArg(r) == ParseList(r.countries)
IndicatorArg(r) ==
    IF r.endpoint = "economic-health" THEN Some(HealthIndicators)
    ELSE ParseList(r.indicators)

EconParams(r) ==
    [country_codes |-> FmtList(CountryArg(r)),
     indicators |-> FmtList(IndicatorArg(r)),
     start_year |-> Fmt(r.start_year),
     end_year |-> Fmt(r.end_year)]

WBKeyOf(r) == WB_get_cache_key(<<"economic_indicators">>, EconParams(r))

\* indicator_codes and indicator_names of get_economic_indicators.
indicator_codes(arg) ==
    Take(IF arg.some
            THEN [i \in DOMAIN arg.val |-> CodeOf(arg.val[i])]
            ELSE [i \in DOMAIN Indicators |-> Indicators[i][2]],
         MaxIndicators)

indicator_names(arg) ==
    Take(IF arg.some
            THEN [i \in DOMAIN arg.val |-> NameOf(CodeOf(arg.val[i]))]
            ELSE [i \in DOMAIN Indicators |-> Indicators[i][1]],
         MaxIndicators)

\* country_codes of get_economic_indicators.
country_codes(arg) ==
    Take(IF arg.some THEN arg.val ELSE Countries, MaxCountries)

\* get_trend_analysis: the indicators analysed, and whether
\* self.indicators[ind] raises KeyError for one of them.
TrendIndicators(r) ==
    IF r.indicators = <<>> THEN DefaultTrendIndicators
    ELSE Split(r.indicators)
TrendKeyError(r) ==
    \E i \in DOMAIN TrendIndicators(r) : TrendIndicators(r)[i] \notin IndicatorNames

\* The indicator codes a request asks upstream for, one HTTP request each.
LoopCodes(r) ==
    CASE r.endpoint \in EconEndpoints -> indicator_codes(IndicatorArg(r))
      [] r.endpoint = "trends" ->
            Take([i \in DOMAIN TrendIndicators(r) |-> CodeOf(TrendIndicators(r)[i])],
                 MaxTrendIndicators)
      [] OTHER -> <<CodeOf(r.indicator)>>

\* What api.worldbank.org answers to one indicator request: "error" (no
\* answer, an error status, a body that is not the expected JSON), "no_data"
\* (fewer than two elements, or an empty record list) or "data" (records
\* with values).  The model draws from the first and the last: "no_data"
\* differs from "error" in the log entry only.
WBResponses == {"error", "data"}

\* The server-log entry written before a request and after its answer.
RequestLog(r) ==
    CASE r.endpoint \in EconEndpoints -> "worldbank_indicator_request"
      [] r.endpoint = "trends" -> "worldbank_trends_request"
      [] OTHER -> "worldbank_comparison_request"

AnswerLog(r, resp) ==
    CASE r.endpoint \in EconEndpoints ->
            (CASE resp = "error" -> "worldbank_indicator_error"
               [] resp = "no_data" -> "worldbank_indicator_no_data"
               [] OTHER -> "worldbank_indicator_success")
      [] r.endpoint = "trends" ->
            (CASE resp = "error" -> "worldbank_trends_error"
               [] resp = "no_data" -> "worldbank_trends_no_data"
               [] OTHER -> "worldbank_trends_success")
      [] OTHER ->
            (CASE resp = "error" -> ""
               [] resp = "no_data" -> "worldbank_comparison_no_data"
               [] OTHER -> "worldbank_comparison_success")

LogAnswer(logs, r, resp) ==
    IF AnswerLog(r, resp) = "" THEN logs
    ELSE add_server_log(logs, AnswerLog(r, resp))

\* The columns of the DataFrame get_economic_indicators returns: the
\* requested names that have a column after the pivot, or all of them for
\* the empty frame.
EconFrame(r, data) ==
    LET names == indicator_names(IndicatorArg(r))
        present(n) == \E i \in DOMAIN data : NameOf(data[i]) = n
    IN IF data = <<>>
          THEN Frame(BaseColumns \o names, <<>>)
          ELSE Frame(BaseColumns \o SelectSeq(names, present), data)

\* get_economic_indicators letting "no data fetched" escape as an exception.
WBResultRaising(r, data) ==
    CASE r.endpoint \in EconEndpoints ->
            IF data = <<>> THEN Raise("Exception")
            ELSE Return(EconFrame(r, data))
      [] r.endpoint = "trends" ->
            IF data = <<>> THEN Raise("Exception")
            ELSE Return(Frame(<<"Country", "Year">>, data))
      [] OTHER -> Return(Frame(ComparisonColumns, data))

\* What the provider method returns or raises once every indicator has
\* been asked for.
WBResult(r, data) ==
    CASE r.endpoint \in EconEndpoints -> Return(EconFrame(r, data))
      [] r.endpoint = "trends" ->
            IF data = <<>> THEN Raise("Exception")
            ELSE Return(Frame(<<"Country", "Year">>, data))
      [] OTHER -> Return(Frame(ComparisonColumns, data))

\* ------------------------------------------------------------ demo data
\* The five CSV files load_data requires and generate_all_data writes.
RequiredFiles == {"sales.csv", "inventory.csv", "profit.csv", "trends.csv",
                  "stats.csv"}

\* Sales records, by the fields /api/sales filters on.  Dates are days;
\* the records of the model differ in date and category and are all of one
\* region, which a request asks for or not.
MaxRows == 2
MaxDate == 2
Categories == {"electronics", "food"}
Regions == {"kyiv"}
SaleRows ==
    [date : 1..MaxDate, category : Categories, region : Regions,
     quantity : {1}]

\* The sum of the field f over the records of a list.
RECURSIVE SumField(_, _)
SumField(rows, f) ==
    IF rows = <<>> THEN 0 ELSE Head(rows)[f] + SumField(Tail(rows), f)

\* The members of a set of numbers in ascending order.
RECURSIVE Ascending(_)
Ascending(S) ==
    IF S = {} THEN <<>>
    ELSE LET m == CHOOSE x \in S : \A y \in S : x <= y
         IN <<m>> \o Ascending(S \ {m})

\* The price drawn for a product of a category, in cents: one price per
\* category, within the category's PRICE_RANGES.
UnitPrice(category) == IF category = "electronics" THEN 50000 ELSE 1000

\* generate_sales_data: the records in the order of the loops over the days
\* and the records of a day, numbered by record_id from 1 on.  `draws` are
\* the random choices of the records, with the day each belongs to.
generate_sales_data(draws) ==
    [i \in DOMAIN draws |->
        [id |-> i, date |-> draws[i].date, category |-> draws[i].category,
         region |-> draws[i].region, quantity |-> draws[i].quantity,
         total_revenue |-> draws[i].quantity * UnitPrice(draws[i].category)]]

\* generate_sales_data appends day after day: the records are in date order,
\* and every day has records.
SalesTables ==
    {generate_sales_data(s) :
       s \in {d \in UNION {[1..n -> SaleRows] : n \in 1..MaxRows} :
                \A i \in 1..(Len(d) - 1) : d[i].date <= d[i + 1].date}}

\* A trend list with one record per sale instead of one per day.
generate_trend_data_per_sale(sales) ==
    [k \in DOMAIN sales |->
        [date |-> sales[k].date, total_revenue |-> sales[k].total_revenue,
         total_profit |-> (sales[k].total_revenue * 3) \div 10,
         total_sales |-> sales[k].quantity]]

\* generate_trend_data: the sales grouped by sale.date.date(), one record
\* per date with the sums of the day, sorted by date.  total_profit is
\* round(total_revenue * 0.3, 2); avg_order_value is left out.
generate_trend_data(sales) ==
    LET days == Ascending({sales[i].date : i \in DOMAIN sales})
        OfDay(d) == SelectSeq(sales, LAMBDA x : x.date = d)
    IN [k \in DOMAIN days |->
           LET revenue == SumField(OfDay(days[k]), "total_revenue")
           IN [date |-> days[k], total_revenue |-> revenue,
               total_profit |-> (revenue * 3) \div 10,
               total_sales |-> SumField(OfDay(days[k]), "quantity")]]

\* generate_stats_data: the totals over all sales records.
generate_stats_data(sales) ==
    [total_sales |-> SumField(sales, "quantity"),
     total_revenue |-> SumField(sales, "total_revenue")]

\* No statistics: of a file that does not exist, of no data.
NoStats == [total_sales |-> 0, total_revenue |-> 0]

\* A file holds its part of a data set: the run of generate_all_data that
\* made the set, the sales, the trends and the statistics.  NoFile: the file
\* does not exist.
NoFile == [version |-> 0 - 1, sales |-> <<>>, trends |-> <<>>, stats |-> NoStats]

\* The lists generate_all_data makes of the sales of a run.
DataSet(version, sales) ==
    [version |-> version, sales |-> sales,
     trends |-> generate_trend_data(sales),
     stats |-> generate_stats_data(sales)]

\* The data directory before the first request: empty (a fresh checkout),
\* or holding the five files of an earlier run and a file that is no CSV.
FileNames == RequiredFiles \cup {"notes.txt", "missing.csv"}
EmptyDataDir == [f \in FileNames |-> NoFile]
DataDirs ==
    {EmptyDataDir} \cup
    {[f \in FileNames |->
         IF f = "missing.csv" THEN NoFile ELSE DataSet(0, s)] :
       s \in SalesTables}

\* filename.endswith('.csv')
EndsWithCsv(f) == f \in RequiredFiles \cup {"missing.csv"}

\* os.path.exists(os.path.join("data", f))
Exists(dir, f) == f \in DOMAIN dir /\ dir[f] # NoFile

\* generate_all_data that returns the data without writing the files.
generate_all_data_unsaved(dir, version, sales) ==
    [dir |-> dir,
     data |-> [form |-> "models", version |-> version, sales |-> sales,
               trends |-> generate_trend_data(sales),
               stats |-> generate_stats_data(sales)]]

\* generate_all_data: the five files are written (save_to_csv) and the
\* lists of model objects are returned.
generate_all_data(dir, version, sales) ==
    [dir |-> [f \in DOMAIN dir |->
                 IF f \in RequiredFiles
                    THEN DataSet(version, sales)
                 ELSE dir[f]],
     data |-> [form |-> "models", version |-> version, sales |-> sales,
               trends |-> generate_trend_data(sales),
               stats |-> generate_stats_data(sales)]]

\* pd.read_csv(...).to_dict('records') over the five files: lists of dicts.
read_csv_files(dir) ==
    [form |-> "records", version |-> dir["sales.csv"].version,
     sales |-> dir["sales.csv"].sales, trends |-> dir["trends.csv"].trends,
     stats |-> dir["stats.csv"].stats]

\* cached_data = None
NoData ==
    [form |-> "None", version |-> 0 - 1, sales |-> <<>>, trends |-> <<>>,
     stats |-> NoStats]

\* load_data: cached_data is reset to None first, so the cached value is
\* never returned; the files are read when all five exist, and a new data
\* set (`sales`, made by run number generated + 1) is generated otherwise.
\* The result: the data, the directory and the two counters afterwards.
load_data(cached, dir, gen, reads, sales) ==
    LET cached_data0 == NoData
        files_exist == \A f \in RequiredFiles : Exists(dir, f)
    IN IF cached_data0 # NoData
          THEN [data |-> cached, dir |-> dir, generated |-> gen,
                csv_reads |-> reads]
       ELSE IF ~files_exist
          THEN LET g == generate_all_data(dir, gen + 1, sales)
               IN [data |-> g.data, dir |-> g.dir, generated |-> gen + 1,
                   csv_reads |-> reads]
       ELSE [data |-> read_csv_files(dir), dir |-> dir, generated |-> gen,
             csv_reads |-> reads + 1]

\* DataFrame.head(n): the first n rows, or all but the last -n ones when n
\* is negative.
DataFrame_head(rows, n) ==
    LET k == IF n >= 0 THEN Min(n, Len(rows))
             ELSE IF Len(rows) + n > 0 THEN Len(rows) + n ELSE 0
    IN SubSeq(rows, 1, k)

\* A date parameter that was not given.
NoDate == 0

\* GET /api/sales?start_date=&end_date=&category=&region=&limit=
SalesRequest(start_date, end_date, category, region, limit) ==
    [endpoint |-> "sales", start_date |-> start_date, end_date |-> end_date,
     category |-> category, region |-> region, limit |-> limit]

DefaultLimit == 1000
SalesRequests ==
    {SalesRequest(s, e, c, g, l) :
        s \in {NoDate, MaxDate}, e \in {NoDate, 1}, c \in {None, "food"},
        g \in {None, "kyiv", "lviv"}, l \in {0 - 1, 0, 1, DefaultLimit}}

HasFilter(r) ==
    \/ r.start_date # NoDate
    \/ r.end_date # NoDate
    \/ r.category # None
    \/ r.region # None

\* The filters of get_sales, one after the other.
FilterSales(rows, r) ==
    LET Keep(x) ==
            /\ r.start_date # NoDate => x.date >= r.start_date
            /\ r.end_date # NoDate => x.date <= r.end_date
            /\ r.category # None => x.category = r.category
            /\ r.region # None => x.region = r.region
    IN SelectSeq(rows, Keep)

\* get_sales after load_data.  Generated data are model objects, whose
\* DataFrame has no 'date', 'category' or 'region' column: a filter raises
\* KeyError, which the handler turns into HTTP 500.
get_sales(data, r) ==
    IF data.form = "models" /\ HasFilter(r)
       THEN [status |-> 500, data |-> "KeyError", last_update |-> NoneTime]
    ELSE [status |-> 200,
          data |-> [version |-> data.version,
                    rows |-> DataFrame_head(
                               IF data.form = "models" THEN data.sales
                               ELSE FilterSales(data.sales, r),
                               r.limit)],
          last_update |-> NoneTime]

\* GET /api/inventory, /api/profit, /api/stats, ...: load_data, then the
\* records of the data set.
ReadEndpoints == {"sales", "inventory", "stats"}
get_records(data) ==
    [status |-> 200, data |-> [version |-> data.version, rows |-> data.sales],
     last_update |-> NoneTime]

\* GET /api/files/{filename} and /api/files/{filename}/stats
FileEndpoints == {"file", "file-stats"}
FileRequests == [endpoint : FileEndpoints, filename : FileNames]

\* get_file_content / get_file_stats: HTTPException(404) is raised inside
\* the try when the file is missing or no CSV, and `except Exception`
\* answers it with HTTPException(500); otherwise the file is read.
get_file(dir, r) ==
    IF ~Exists(dir, r.filename) \/ ~EndsWithCsv(r.filename)
       THEN [status |-> 500, data |-> "HTTPException", last_update |-> NoneTime]
    ELSE [status |-> 200,
          data |-> [version |-> dir[r.filename].version,
                    rows |-> dir[r.filename].sales],
          last_update |-> NoneTime]

RegenerateRequest == [endpoint |-> "regenerate"]
ServerLogsRequest == [endpoint |-> "server-logs"]

\* ------------------------------------------------------------- trends
\* Days are numbered from a Monday on.  The month of the generated days
\* begins on day FirstOfMonth, the month before it (of 30 days) ends the day
\* before.
FirstOfMonth == 9
DaysOfMonth == 30

\* date.dt.to_period('W').start_time: the Monday of the week of the day.
WeekStart(d) == d - ((d - 1) % 7)

\* date.dt.to_period('M').start_time: the first day of the month of the day.
MonthStart(d) ==
    IF d >= FirstOfMonth THEN FirstOfMonth ELSE FirstOfMonth - DaysOfMonth

\* The days a generation covers, and the records of a day: records_per_day
\* times the weekend multiplier 1.5 on Saturdays and Sundays (no month of
\* the holiday multiplier is among the days).
GenFirstDay == 7
GenDays == 3
RecordsPerDay == 2
MaxQuantity == 2
GenDates == GenFirstDay..(GenFirstDay + GenDays - 1)
daily_records(d) ==
    IF d % 7 \in {6, 0} THEN (RecordsPerDay * 3) \div 2 ELSE RecordsPerDay

\* The day of each record of a generation, in the order of the loops.
RECURSIVE DaysOfRecords(_, _)
DaysOfRecords(d, n) ==
    IF d > GenFirstDay + GenDays - 1 THEN <<>>
    ELSE IF n = 0 THEN DaysOfRecords(d + 1, daily_records(d + 1))
    ELSE <<d>> \o DaysOfRecords(d, n - 1)

\* The random choices of a record: a category and a quantity.
GenChoices ==
    {c \in [category : Categories, quantity : 1..MaxQuantity] :
        c.category = "food" \/ c.quantity = 1}

\* The random choices of one generate_sales_data run over the days.
GenDraws ==
    LET days == DaysOfRecords(GenFirstDay, daily_records(GenFirstDay))
    IN {[i \in DOMAIN days |->
           [date |-> days[i], category |-> c[i].category, region |-> "kyiv",
            quantity |-> c[i].quantity]] :
          c \in [DOMAIN days -> GenChoices]}

\* GET /api/trends?period=&start_date=&end_date=
DemoTrendsRequest(period, start_date, end_date) ==
    [endpoint |-> "trends", period |-> period, start_date |-> start_date,
     end_date |-> end_date]

DemoTrendsRequests ==
    {DemoTrendsRequest(p, s, e) :
        p \in {"daily", "weekly", "monthly", "yearly"},
        s \in {NoDate, GenFirstDay + 1}, e \in {NoDate, GenFirstDay + 1}}

\* The date filters of get_trends.
FilterTrends(rows, r) ==
    LET Keep(x) ==
            /\ r.start_date # NoDate => x.date >= r.start_date
            /\ r.end_date # NoDate => x.date <= r.end_date
    IN SelectSeq(rows, Keep)

\* An aggregation that keeps the first record of each period.
AggregateTrendsFirst(rows, freq) ==
    LET PeriodStart(d) == IF freq = "W" THEN WeekStart(d) ELSE MonthStart(d)
        periods == Ascending({PeriodStart(rows[i].date) : i \in DOMAIN rows})
        OfPeriod(p) == SelectSeq(rows, LAMBDA x : PeriodStart(x.date) = p)
    IN [k \in DOMAIN periods |->
           [date |-> periods[k],
            total_revenue |-> Head(OfPeriod(periods[k])).total_revenue,
            total_profit |-> Head(OfPeriod(periods[k])).total_profit,
            total_sales |-> Head(OfPeriod(periods[k])).total_sales]]

\* groupby(date.dt.to_period(...)).agg(sum).reset_index(), the date of a
\* group set to the start of its period: one record per period, in the order
\* of the periods.  (avg_order_value, the mean of the group, is left out.)
AggregateTrends(rows, freq) ==
    LET PeriodStart(d) == IF freq = "W" THEN WeekStart(d) ELSE MonthStart(d)
        periods == Ascending({PeriodStart(rows[i].date) : i \in DOMAIN rows})
        OfPeriod(p) == SelectSeq(rows, LAMBDA x : PeriodStart(x.date) = p)
    IN [k \in DOMAIN periods |->
           [date |-> periods[k],
            total_revenue |-> SumField(OfPeriod(periods[k]), "total_revenue"),
            total_profit |-> SumField(OfPeriod(periods[k]), "total_profit"),
            total_sales |-> SumField(OfPeriod(periods[k]), "total_sales")]]

\* get_trends after load_data.  Generated data are model objects, whose
\* DataFrame has no 'date' column: pd.to_datetime(trends_df['date']) raises
\* KeyError, which the handler turns into HTTP 500.
get_trends(data, r) ==
    IF data.form = "models"
       THEN [status |-> 500, data |-> "KeyError", last_update |-> NoneTime]
    ELSE LET filtered == FilterTrends(data.trends, r)
         IN [status |-> 200,
             data |-> [version |-> data.version,
                       rows |-> IF r.period = "weekly"
                                   THEN AggregateTrends(filtered, "W")
                                ELSE IF r.period = "monthly"
                                   THEN AggregateTrends(filtered, "M")
                                ELSE filtered],
             last_update |-> NoneTime]

\* ----------------------------------------------------- economic health
\* A value that is missing in the DataFrame (pd.notna is false, or the
\* column is absent).  The values of the model are not negative.
NaN == 0 - 1

\* The weights of the four indicators, in percent.
WeightGdpPerCapita == 30
WeightInflation == 25
WeightUnemployment == 25
WeightLifeExpectancy == 20

\* The values of an indicator in the input: missing, and a value of each
\* band, the limits of the bands among them.
HealthValues ==
    [GDP_PER_CAPITA |-> {NaN, 5000, 10000, 25000, 50000, 50001},
     INFLATION |-> {NaN, 1, 2, 5, 10, 20},
     UNEMPLOYMENT |-> {NaN, 2, 3, 5, 8, 15},
     LIFE_EXPECTANCY |-> {NaN, 65, 66, 71, 76, 81}]

\* A row of the normalized DataFrame: a country, a year and the indicators.
HealthRows(countries, years) ==
    [Country : countries, Year : years,
     GDP_PER_CAPITA : HealthValues.GDP_PER_CAPITA,
     INFLATION : HealthValues.INFLATION,
     UNEMPLOYMENT : HealthValues.UNEMPLOYMENT,
     LIFE_EXPECTANCY : HealthValues.LIFE_EXPECTANCY]

\* An earlier row of a country, with every indicator in its best band.
BestRow(country) ==
    [Country |-> country, Year |-> 2022, GDP_PER_CAPITA |-> 50001,
     INFLATION |-> 1, UNEMPLOYMENT |-> 2, LIFE_EXPECTANCY |-> 81]

\* The DataFrames analyzed: the rows in the order of the frame.  The last
\* row is of UA; a row before it is of UA or of US.
HealthFrames ==
    {<<r>> : r \in HealthRows({"UA"}, {2023})} \cup
    {<<BestRow(c), r>> : c \in {"UA", "US"}, r \in HealthRows({"UA"}, {2023})}

\* The band score of an indicator value.
BandScore(indicator, v) ==
    IF indicator = "GDP_PER_CAPITA"
       THEN IF v > 50000 THEN 100 ELSE IF v > 25000 THEN 80
            ELSE IF v > 10000 THEN 60 ELSE IF v > 5000 THEN 40 ELSE 20
    ELSE IF indicator = "INFLATION"
       THEN IF v < 2 THEN 100 ELSE IF v < 5 THEN 80
            ELSE IF v < 10 THEN 60 ELSE IF v < 20 THEN 40 ELSE 20
    ELSE IF indicator = "UNEMPLOYMENT"
       THEN IF v < 3 THEN 100 ELSE IF v < 5 THEN 80
            ELSE IF v < 8 THEN 60 ELSE IF v < 15 THEN 40 ELSE 20
    ELSE IF v > 80 THEN 100 ELSE IF v > 75 THEN 80
         ELSE IF v > 70 THEN 60 ELSE IF v > 65 THEN 40 ELSE 20

\* Levels whose limits are exclusive.
HealthLevelAbove(health_score) ==
    IF health_score > 80 THEN "Excellent"
    ELSE IF health_score > 60 THEN "Good"
    ELSE IF health_score > 40 THEN "Medium"
    ELSE IF health_score > 20 THEN "Poor"
    ELSE "Critical"

\* The level of a health score.
HealthLevel(health_score) ==
    IF health_score >= 80 THEN "Excellent"
    ELSE IF health_score >= 60 THEN "Good"
    ELSE IF health_score >= 40 THEN "Medium"
    ELSE IF health_score >= 20 THEN "Poor"
    ELSE "Critical"

\* analyze_economic_health: for every country of the frame, the score of
\* its last row.  A band score times its weight is a whole number (the
\* band scores are multiples of 20), so is the health score, and rounding
\* it to one decimal changes nothing.
analyze_economic_health(df) ==
    LET Weight ==
            [GDP_PER_CAPITA |-> WeightGdpPerCapita,
             INFLATION |-> WeightInflation,
             UNEMPLOYMENT |-> WeightUnemployment,
             LIFE_EXPECTANCY |-> WeightLifeExpectancy]
        unique == {df[i].Country : i \in DOMAIN df}
        country_data(c) == SelectSeq(df, LAMBDA x : x.Country = c)
        Score(latest_data, n) ==
            IF latest_data[n] # NaN
               THEN (BandScore(n, latest_data[n]) * Weight[n]) \div 100
            ELSE 0
    IN [c \in unique |->
           LET latest_data == country_data(c)[Len(country_data(c))]
               health_score ==
                   Score(latest_data, "GDP_PER_CAPITA")
                   + Score(latest_data, "INFLATION")
                   + Score(latest_data, "UNEMPLOYMENT")
                   + Score(latest_data, "LIFE_EXPECTANCY")
           IN [health_score |-> health_score,
               health_level |-> HealthLevel(health_score),
               indicators |->
                   [n \in {m \in DOMAIN Weight : latest_data[m] # NaN} |->
                       BandScore(n, latest_data[n])],
               latest_year |-> latest_data.Year]]

\* A call of analyze_economic_health with the frame df.
AnalyzeRequest(df) == [endpoint |-> "analyze_economic_health", df |-> df]

\* ------------------------------------------------------------- Init
\* A run carries the traffic of one group of endpoints: the crypto
\* endpoints, the World Bank endpoints on the shared provider and the
\* comparison and trend endpoints, or the World Bank analysis endpoints.
Workloads == {"crypto", "worldbank", "analysis"}

WorkloadOf(r) ==
    IF r.endpoint \in {"normalized", "economic-health"} THEN "analysis"
    ELSE "worldbank"

\* The run that fills the server log: /api/worldbank/indicators asked for
\* one key over and over, and /api/server-logs.
LogsRequests == {IndicatorsRequest(<<"UA">>, <<"GDP">>, 2020, 2023)}
MaxLogCalls == 104
CallLimit == IF workload = "logs" THEN MaxLogCalls ELSE MaxCalls

\* The state after start-up of a run with workload w and data directory dir.
InitRun(w, dir) ==
    /\ now = StartTime
    /\ ticks = 0
    /\ calls = 0
    /\ workload = w
    /\ pc = [t \in Threads |-> "idle"]
    /\ req = [t \in Threads |-> NoRequest]
    /\ wake = [t \in Threads |-> 0]
    /\ outcome = [t \in Threads |-> NoOutcome]
    /\ http = [t \in Threads |-> NoResponse]
    /\ answer = [t \in Threads |-> NoAnswer]
    /\ idx = [t \in Threads |-> 0]
    /\ all_data = [t \in Threads |-> <<>>]
    /\ own = [t \in Threads |-> NewProvider]
    /\ crypto_cache = <<>>
    /\ crypto_last = 0
    /\ crypto_reqs = <<>>
    /\ wb_cache = <<>>
    /\ wb_last = 0
    /\ wb_reqs = <<>>
    /\ server_logs = <<>>
    /\ fetched = <<>>
    /\ main_cached_data = NoData
    /\ files = dir
    /\ generated = 0
    /\ csv_reads = 0

Init == \E w \in Workloads : InitRun(w, EmptyDataDir)

\* ------------------------------------------------------------ clock
\* The clock advances while every thread waits for a request or for the
\* upstream answer (the code between runs within the second): by one
\* second, or, between requests, by one second less than the provider's
\* minimum interval or than its cache TTL.  A sleeping thread moves the
\* clock itself, when it wakes.
TickSteps ==
    LET interval == IF workload = "crypto" THEN CryptoMinRequestInterval
                    ELSE WBMinRequestInterval
        ttl == IF workload = "crypto" THEN CryptoCacheTtl ELSE WBCacheTtl
    IN IF \A t \in Threads : pc[t] = "idle"
          THEN {1, interval - 1, ttl - 1}
          ELSE {1}

\* A clock step that removes the entries that have expired.
TickEvicting(d) ==
    /\ ticks < MaxTicks
    /\ \A t \in Threads : pc[t] \in {"idle", "in_flight", "wb_in_flight"}
    /\ now' = now + d
    /\ ticks' = ticks + 1
    /\ crypto_cache' =
          [k \in {x \in DOMAIN crypto_cache :
                     now + d - crypto_cache[x].time < CryptoCacheTtl}
              |-> crypto_cache[k]]
    /\ wb_cache' =
          [k \in {x \in DOMAIN wb_cache :
                     now + d - wb_cache[x].time < WBCacheTtl}
              |-> wb_cache[k]]
    /\ UNCHANGED <<calls, workload, dataVars, threadVars, crypto_last, crypto_reqs,
                   wb_last, wb_reqs, server_logs, auxVars>>

Tick(d) ==
    /\ ticks < MaxTicks
    /\ \A t \in Threads : pc[t] \in {"idle", "in_flight", "wb_in_flight"}
    /\ now' = now + d
    /\ ticks' = ticks + 1
    /\ UNCHANGED <<calls, workload, dataVars, threadVars, cryptoVars, wbVars, server_logs>>
    /\ UNCHANGED auxVars

\* The threads that are not in the middle of a step.
WaitPoints == {"idle", "sleeping", "in_flight", "wb_sleeping", "wb_in_flight"}
Waiting(t) == \A u \in Threads \ {t} : pc[u] \in WaitPoints

\* No other request is being served.
Quiet(t) == \A u \in Threads \ {t} : pc[u] = "idle"

\* A call that, on a miss, waits for a request another thread has in
\* progress for the same key instead of making its own.
CryptoCallCoalescing(t, r) ==
    /\ pc[t] = "idle"
    /\ workload = "crypto"
    /\ calls < MaxCalls
    /\ calls' = calls + 1
    /\ LET cached_data == Crypto_get_from_cache(crypto_cache, CryptoKeyOf(r))
           busy == \E u \in Threads \ {t} :
                      /\ pc[u] \in {"rate_limit", "sleeping", "stamp", "in_flight"}
                      /\ CryptoKeyOf(req[u]) = CryptoKeyOf(r)
       IN /\ req' = [req EXCEPT ![t] = r]
          /\ IF cached_data # None
                THEN /\ outcome' = [outcome EXCEPT ![t] = Return(cached_data)]
                     /\ pc' = [pc EXCEPT ![t] = "returned"]
                ELSE /\ outcome' = outcome
                     /\ pc' = [pc EXCEPT ![t] =
                                 IF busy THEN "sleeping" ELSE "rate_limit"]
    /\ UNCHANGED <<clockVars, workload, dataVars, wake, http, idx, all_data, own,
                   cryptoVars, wbVars, server_logs, auxVars>>

\* ------------------------------------------- crypto provider calls
\* get_market_data / get_coin_history / get_global up to the cache check:
\* a valid entry whose data is not None is returned at once.
CryptoCall(t, r) ==
    /\ pc[t] = "idle"
    /\ workload = "crypto"
    /\ calls < MaxCalls
    /\ calls' = calls + 1
    /\ LET cached_data == Crypto_get_from_cache(crypto_cache, CryptoKeyOf(r))
       IN /\ req' = [req EXCEPT ![t] = r]
          /\ IF cached_data # None
                THEN /\ outcome' = [outcome EXCEPT ![t] = Return(cached_data)]
                     /\ pc' = [pc EXCEPT ![t] = "returned"]
                ELSE /\ outcome' = outcome
                     /\ pc' = [pc EXCEPT ![t] = "rate_limit"]
    /\ UNCHANGED <<clockVars, workload, dataVars, wake, http, idx, all_data, own,
                   cryptoVars, wbVars, server_logs>>
    /\ UNCHANGED auxVars

\* A rate limiter that never sleeps.
CryptoRateLimitSkip(t) ==
    /\ pc[t] = "rate_limit"
    /\ pc' = [pc EXCEPT ![t] = "stamp"]
    /\ UNCHANGED <<clockVars, calls, workload, dataVars, req, wake, outcome, http, idx,
                   all_data, own, cryptoVars, wbVars, server_logs, auxVars>>

\* _rate_limit_delay up to time.sleep: the clock and _last_request_time are
\* read, and the thread sleeps for the rest of the interval or goes on.
CryptoRateLimitRead(t) ==
    /\ pc[t] = "rate_limit"
    /\ LET time_since_last_request == now - crypto_last
       IN IF time_since_last_request < CryptoMinRequestInterval
             THEN /\ wake' = [wake EXCEPT ![t] =
                        now + (CryptoMinRequestInterval - time_since_last_request)]
                  /\ pc' = [pc EXCEPT ![t] = "sleeping"]
             ELSE /\ wake' = wake
                  /\ pc' = [pc EXCEPT ![t] = "stamp"]
    /\ UNCHANGED <<clockVars, calls, workload, dataVars, req, outcome, http, idx,
                   all_data, own, cryptoVars, wbVars, server_logs>>
    /\ UNCHANGED auxVars

\* time.sleep(delay) returns once the delay has passed.
CryptoWake(t) ==
    /\ pc[t] = "sleeping"
    /\ Waiting(t)
    /\ now' = IF now < wake[t] THEN wake[t] ELSE now
    /\ wake' = [wake EXCEPT ![t] = 0]
    /\ pc' = [pc EXCEPT ![t] = "stamp"]
    /\ UNCHANGED <<ticks, calls, workload, dataVars, req, outcome, http, idx,
                   all_data, own, cryptoVars, wbVars, server_logs>>
    /\ UNCHANGED auxVars

\* _last_request_time = time.time(), and requests.get is started.
CryptoSend(t) ==
    /\ pc[t] = "stamp"
    /\ crypto_last' = now
    /\ crypto_reqs' = Append(crypto_reqs, now)
    /\ pc' = [pc EXCEPT ![t] = "in_flight"]
    /\ UNCHANGED <<clockVars, calls, workload, dataVars, req, wake, outcome, http, idx,
                   all_data, own, crypto_cache, wbVars, server_logs>>
    /\ UNCHANGED auxVars

\* A provider that answers every failure with sample data.
CryptoResultSample(r, resp, jsonerr) ==
    IF resp.kind = "http" /\ resp.status = 200 /\ resp.body # "invalid"
       THEN Return(ParseJson(resp.body))
       ELSE Return("list_a")

\* What the provider method does with the upstream answer: the value it
\* returns (and caches) or the exception it raises.
CryptoResult(r, resp, jsonerr) ==
    CASE resp.kind = "timeout" -> Raise("Timeout")
      [] resp.kind = "connection_error" -> Raise("RequestException")
      [] resp.status = 429 -> Raise("RequestException")
      [] resp.status # 200 -> Raise("RequestException")
      [] resp.body = "invalid" -> Raise(jsonerr)
      [] r.endpoint = "markets" /\ ~IsList(ParseJson(resp.body)) ->
            Raise("Exception")
      [] OTHER -> Return(ParseJson(resp.body))

\* A receive step that caches whatever the call ends with.
CryptoReceiveSaving(t, resp, jsonerr) ==
    /\ pc[t] = "in_flight"
    /\ LET res == CryptoResult(req[t], resp, jsonerr)
       IN /\ outcome' = [outcome EXCEPT ![t] = res]
          /\ crypto_cache' =
                Crypto_save_to_cache(crypto_cache, CryptoKeyOf(req[t]), res.val)
    /\ pc' = [pc EXCEPT ![t] = "returned"]
    /\ answer' = [answer EXCEPT ![t] = resp]
    /\ UNCHANGED <<clockVars, calls, workload, dataVars, req, wake, http, idx, all_data,
                   own, crypto_last, crypto_reqs, wbVars, server_logs, fetched>>

\* requests.get returns or raises; on success the data is cached.
CryptoReceive(t, resp, jsonerr) ==
    /\ pc[t] = "in_flight"
    /\ LET res == CryptoResult(req[t], resp, jsonerr)
       IN /\ outcome' = [outcome EXCEPT ![t] = res]
          /\ crypto_cache' =
                IF res.kind = "return"
                   THEN Crypto_save_to_cache(crypto_cache, CryptoKeyOf(req[t]),
                                             res.val)
                   ELSE crypto_cache
    /\ pc' = [pc EXCEPT ![t] = "returned"]
    /\ UNCHANGED <<clockVars, calls, workload, dataVars, req, wake, http, idx, all_data,
                   own, crypto_last, crypto_reqs, wbVars, server_logs>>
    /\ answer' = [answer EXCEPT ![t] = resp]
    /\ UNCHANGED fetched

\* The handler after run_in_threadpool: the JSON response, or HTTP 500.
CryptoResponse(r, res, cache) ==
    IF res.kind = "raise"
       THEN [status |-> 500, data |-> res.val, last_update |-> NoneTime]
    ELSE CASE r.endpoint = "markets" ->
                IF res.val = None
                   THEN [status |-> 500, data |-> "TypeError",
                         last_update |-> NoneTime]
                   ELSE [status |-> 200, data |-> res.val,
                         last_update |->
                            Crypto_get_last_update_time(cache, CryptoKeyOf(r))]
           [] r.endpoint = "global" ->
                IF IsDict(res.val)
                   THEN [status |-> 200, data |-> res.val,
                         last_update |->
                            Crypto_get_last_update_time(cache, CryptoKeyOf(r))]
                   ELSE [status |-> 500, data |-> "AttributeError",
                         last_update |-> NoneTime]
           [] OTHER ->
                [status |-> 200, data |-> res.val, last_update |-> NoneTime]

CryptoRespond(t) ==
    /\ pc[t] = "returned"
    /\ workload = "crypto"
    /\ http' = [http EXCEPT ![t] =
                    CryptoResponse(req[t], outcome[t], crypto_cache)]
    /\ pc' = [pc EXCEPT ![t] = "responded"]
    /\ UNCHANGED <<clockVars, calls, workload, dataVars, req, wake, outcome, idx,
                   all_data, own, cryptoVars, wbVars, server_logs>>
    /\ UNCHANGED auxVars

\* The response is sent; the worker is free for the next request.
Finish(t) ==
    /\ pc[t] = "responded"
    /\ pc' = [pc EXCEPT ![t] = "idle"]
    /\ req' = [req EXCEPT ![t] = NoRequest]
    /\ outcome' = [outcome EXCEPT ![t] = NoOutcome]
    /\ http' = [http EXCEPT ![t] = NoResponse]
    /\ idx' = [idx EXCEPT ![t] = 0]
    /\ all_data' = [all_data EXCEPT ![t] = <<>>]
    /\ own' = [own EXCEPT ![t] = NewProvider]
    /\ UNCHANGED <<clockVars, calls, workload, dataVars, wake, cryptoVars, wbVars,
                   server_logs>>
    /\ answer' = [answer EXCEPT ![t] = NoAnswer]
    /\ UNCHANGED fetched

\* --------------------------------------- World Bank provider calls
\* The provider instance the request of thread t works on.
Provider(t) ==
    IF UsesSharedProvider(req[t])
       THEN [cache |-> wb_cache, last |-> wb_last, reqs |-> wb_reqs]
       ELSE own[t]

SetProvider(t, p) ==
    IF UsesSharedProvider(req[t])
       THEN /\ wb_cache' = p.cache
            /\ wb_last' = p.last
            /\ wb_reqs' = p.reqs
            /\ own' = own
       ELSE /\ own' = [own EXCEPT ![t] = p]
            /\ UNCHANGED wbVars

\* /api/worldbank/indicators, /normalized and /economic-health up to the
\* call of get_economic_indicators.  /indicators logs the request.
WBEconCall(t, r) ==
    /\ pc[t] = "idle"
    /\ workload = WorkloadOf(r) \/ (workload = "logs" /\ r \in LogsRequests)
    /\ r.endpoint \in EconEndpoints
    /\ calls < CallLimit
    /\ calls' = calls + 1
    /\ req' = [req EXCEPT ![t] = r]
    /\ server_logs' = IF r.endpoint = "indicators"
                         THEN add_server_log(server_logs, "request")
                         ELSE server_logs
    /\ pc' = [pc EXCEPT ![t] = "wb_lookup"]
    /\ UNCHANGED <<clockVars, workload, dataVars, wake, outcome, http, idx, all_data,
                   own, cryptoVars, wbVars>>
    /\ UNCHANGED auxVars

\* /api/worldbank/comparison: an unknown indicator raises
\* HTTPException(400) inside the try, which `except Exception` turns into
\* HTTP 500; otherwise get_country_comparison runs.
WBComparisonCall(t, r) ==
    /\ pc[t] = "idle"
    /\ workload = WorkloadOf(r)
    /\ r.endpoint = "comparison"
    /\ calls < MaxCalls
    /\ calls' = calls + 1
    /\ req' = [req EXCEPT ![t] = r]
    /\ IF r.indicator \notin IndicatorNames
          THEN /\ http' = [http EXCEPT ![t] =
                              [status |-> 500, data |-> "HTTPException",
                               last_update |-> NoneTime]]
               /\ pc' = [pc EXCEPT ![t] = "responded"]
               /\ idx' = idx
          ELSE /\ http' = http
               /\ pc' = [pc EXCEPT ![t] = "wb_loop"]
               /\ idx' = [idx EXCEPT ![t] = 1]
    /\ UNCHANGED <<clockVars, workload, dataVars, wake, outcome, all_data, own,
                   cryptoVars, wbVars, server_logs>>
    /\ UNCHANGED auxVars

\* /api/worldbank/trends/{country}: get_trend_analysis raises at once when
\* an indicator name is unknown (KeyError), else asks for the indicators.
WBTrendsCall(t, r) ==
    /\ pc[t] = "idle"
    /\ workload = WorkloadOf(r)
    /\ r.endpoint = "trends"
    /\ calls < MaxCalls
    /\ calls' = calls + 1
    /\ req' = [req EXCEPT ![t] = r]
    /\ IF TrendKeyError(r)
          THEN /\ outcome' = [outcome EXCEPT ![t] = Raise("Exception")]
               /\ pc' = [pc EXCEPT ![t] = "returned"]
               /\ idx' = idx
          ELSE /\ outcome' = outcome
               /\ pc' = [pc EXCEPT ![t] = "wb_loop"]
               /\ idx' = [idx EXCEPT ![t] = 1]
    /\ UNCHANGED <<clockVars, workload, dataVars, wake, http, all_data, own,
                   cryptoVars, wbVars, server_logs>>
    /\ UNCHANGED auxVars

\* POST /api/clear-cache: the shared provider's cache is cleared.
WBClearCache(t) ==
    /\ pc[t] = "idle"
    /\ workload = "worldbank"
    /\ calls < MaxCalls
    /\ calls' = calls + 1
    /\ req' = [req EXCEPT ![t] = ClearCacheRequest]
    /\ wb_cache' = WB_clear_cache(wb_cache)
    /\ http' = [http EXCEPT ![t] =
                   [status |-> 200, data |-> "cleared", last_update |-> NoneTime]]
    /\ pc' = [pc EXCEPT ![t] = "responded"]
    /\ UNCHANGED <<clockVars, workload, dataVars, wake, outcome, idx, all_data, own,
                   cryptoVars, wb_last, wb_reqs, server_logs>>
    /\ UNCHANGED auxVars

\* get_economic_indicators, _is_cache_valid: a valid entry is read next,
\* otherwise the call goes upstream.
WBLookup(t) ==
    /\ pc[t] = "wb_lookup"
    /\ pc' = [pc EXCEPT ![t] =
                IF WB_is_cache_valid(Provider(t).cache, WBKeyOf(req[t]))
                   THEN "wb_read" ELSE "wb_rate_limit"]
    /\ UNCHANGED <<clockVars, calls, workload, dataVars, req, wake, outcome, http, idx,
                   all_data, own, cryptoVars, wbVars, server_logs>>
    /\ UNCHANGED auxVars

\* _get_from_cache, `_, data = self._cache[cache_key]`: the entry is
\* returned; had clear_cache removed it meanwhile, the KeyError reaches the
\* outer except, which returns an empty frame.
WBRead(t) ==
    /\ pc[t] = "wb_read"
    /\ LET cache == Provider(t).cache
           k == WBKeyOf(req[t])
       IN outcome' = [outcome EXCEPT ![t] =
                         IF k \in DOMAIN cache THEN Return(cache[k].data)
                         ELSE Return(Frame(BaseColumns, <<>>))]
    /\ pc' = [pc EXCEPT ![t] = "returned"]
    /\ UNCHANGED <<clockVars, calls, workload, dataVars, req, wake, http, idx, all_data,
                   own, cryptoVars, wbVars, server_logs>>
    /\ UNCHANGED auxVars

\* _rate_limit_delay up to time.sleep.
WBRateLimitRead(t) ==
    /\ pc[t] = "wb_rate_limit"
    /\ LET time_since_last_request == now - Provider(t).last
       IN IF time_since_last_request < WBMinRequestInterval
             THEN /\ wake' = [wake EXCEPT ![t] =
                        now + (WBMinRequestInterval - time_since_last_request)]
                  /\ pc' = [pc EXCEPT ![t] = "wb_sleeping"]
             ELSE /\ wake' = wake
                  /\ pc' = [pc EXCEPT ![t] = "wb_stamp"]
    /\ UNCHANGED <<clockVars, calls, workload, dataVars, req, outcome, http, idx,
                   all_data, own, cryptoVars, wbVars, server_logs>>
    /\ UNCHANGED auxVars

WBWake(t) ==
    /\ pc[t] = "wb_sleeping"
    /\ Waiting(t)
    /\ now' = IF now < wake[t] THEN wake[t] ELSE now
    /\ wake' = [wake EXCEPT ![t] = 0]
    /\ pc' = [pc EXCEPT ![t] = "wb_stamp"]
    /\ UNCHANGED <<ticks, calls, workload, dataVars, req, outcome, http, idx,
                   all_data, own, cryptoVars, wbVars, server_logs>>
    /\ UNCHANGED auxVars

\* _last_request_time = time.time(); the parameters are logged
\* ("worldbank_request") and the per-indicator loop begins.
WBStamp(t) ==
    /\ pc[t] = "wb_stamp"
    /\ SetProvider(t, [Provider(t) EXCEPT !.last = now])
    /\ server_logs' = add_server_log(server_logs, "worldbank_request")
    /\ idx' = [idx EXCEPT ![t] = 1]
    /\ pc' = [pc EXCEPT ![t] = "wb_loop"]
    /\ UNCHANGED <<clockVars, calls, workload, dataVars, req, wake, outcome, http,
                   all_data, cryptoVars>>
    /\ UNCHANGED auxVars

\* One iteration of the loop, up to requests.get: the request is logged
\* and sent.  get_country_comparison sends its one request the same way.
WBSend(t) ==
    /\ pc[t] = "wb_loop"
    /\ server_logs' = add_server_log(server_logs, RequestLog(req[t]))
    /\ SetProvider(t, [Provider(t) EXCEPT !.reqs = Append(@, now)])
    /\ pc' = [pc EXCEPT ![t] = "wb_in_flight"]
    /\ UNCHANGED <<clockVars, calls, workload, dataVars, req, wake, outcome, http, idx,
                   all_data, cryptoVars>>
    /\ UNCHANGED auxVars

\* The answer to one request: it is logged, its records are collected, and
\* the loop goes on; after the last one the method returns its result,
\* which get_economic_indicators saves to the cache first.
WBReceive(t, resp) ==
    /\ pc[t] = "wb_in_flight"
    /\ LET r == req[t]
           codes == LoopCodes(r)
           data == IF resp = "data" THEN Append(all_data[t], codes[idx[t]])
                   ELSE all_data[t]
           res == WBResult(r, data)
       IN /\ server_logs' = LogAnswer(server_logs, r, resp)
          /\ all_data' = [all_data EXCEPT ![t] = data]
          /\ IF idx[t] < Len(codes)
                THEN /\ idx' = [idx EXCEPT ![t] = @ + 1]
                     /\ pc' = [pc EXCEPT ![t] = "wb_loop"]
                     /\ UNCHANGED <<outcome, own, wbVars>>
                ELSE /\ idx' = idx
                     /\ pc' = [pc EXCEPT ![t] = "returned"]
                     /\ outcome' = [outcome EXCEPT ![t] = res]
                     /\ IF r.endpoint \in EconEndpoints
                           THEN SetProvider(t, [Provider(t) EXCEPT !.cache =
                                   WB_save_to_cache(@, WBKeyOf(r), res.val)])
                           ELSE UNCHANGED <<own, wbVars>>
    /\ UNCHANGED <<clockVars, calls, workload, dataVars, req, wake, http, cryptoVars>>
    /\ answer' = [answer EXCEPT ![t] = WBAnswer(resp)]
    /\ fetched' =
          IF /\ req[t].endpoint \in EconEndpoints
             /\ idx[t] = Len(LoopCodes(req[t]))
             /\ (resp = "data" \/ all_data[t] # <<>>)
             THEN [k \in DOMAIN fetched \cup {WBKeyOf(req[t])} |->
                      IF k = WBKeyOf(req[t]) THEN now ELSE fetched[k]]
             ELSE fetched

\* The handler after run_in_threadpool: the JSON response, or HTTP 500.
\* /indicators answers an empty frame with the empty structure and reads
\* last_update from the shared provider otherwise.
WBResponse(r, res, cache) ==
    IF res.kind = "raise"
       THEN [status |-> 500, data |-> Frame(<<>>, <<>>), last_update |-> NoneTime]
    ELSE IF r.endpoint = "indicators"
       THEN IF IsEmptyFrame(res.val)
               THEN [status |-> 200, data |-> Frame(<<>>, <<>>),
                     last_update |-> NoneTime]
               ELSE [status |-> 200, data |-> res.val,
                     last_update |-> WB_get_last_update_time(cache, WBKeyOf(r))]
    ELSE [status |-> 200, data |-> res.val, last_update |-> NoneTime]

WBRespond(t) ==
    /\ pc[t] = "returned"
    /\ workload # "crypto"
    /\ http' = [http EXCEPT ![t] = WBResponse(req[t], outcome[t], wb_cache)]
    /\ pc' = [pc EXCEPT ![t] = "responded"]
    /\ UNCHANGED <<clockVars, calls, workload, dataVars, req, wake, outcome, idx,
                   all_data, own, cryptoVars, wbVars, server_logs>>
    /\ UNCHANGED auxVars

\* ----------------------------------------------------- specifications
\* Requests served one after the other: a request starts when no other is
\* being served, and the first worker of the pool takes it.
Worker == 1

Next ==
    \/ \E d \in TickSteps : Tick(d)
    \/ \E r \in CryptoRequests : Quiet(Worker) /\ CryptoCall(Worker, r)
    \/ \E t \in Threads : CryptoRateLimitRead(t)
    \/ \E t \in Threads : CryptoWake(t)
    \/ \E t \in Threads : CryptoSend(t)
    \/ \E t \in Threads, resp \in UpstreamResponses, e \in JsonErrorClasses :
          CryptoReceive(t, resp, e)
    \/ \E t \in Threads : CryptoRespond(t)
    \/ \E r \in WBRequests : Quiet(Worker) /\ WBEconCall(Worker, r)
    \/ \E r \in WBRequests : Quiet(Worker) /\ WBComparisonCall(Worker, r)
    \/ \E r \in WBRequests : Quiet(Worker) /\ WBTrendsCall(Worker, r)
    \/ Quiet(Worker) /\ WBClearCache(Worker)
    \/ \E t \in Threads : WBLookup(t)
    \/ \E t \in Threads : WBRead(t)
    \/ \E t \in Threads : WBRateLimitRead(t)
    \/ \E t \in Threads : WBWake(t)
    \/ \E t \in Threads : WBStamp(t)
    \/ \E t \in Threads : WBSend(t)
    \/ \E t \in Threads, resp \in WBResponses : WBReceive(t, resp)
    \/ \E t \in Threads : WBRespond(t)
    \/ \E t \in Threads : Finish(t)

Spec == Init /\ [][Next]_vars

\* The crypto endpoints served concurrently by the worker pool.
NextPool ==
    \/ \E d \in TickSteps : Tick(d)
    \/ \E t \in Threads, r \in CryptoRequests : CryptoCall(t, r)
    \/ \E t \in Threads : CryptoRateLimitRead(t)
    \/ \E t \in Threads : CryptoWake(t)
    \/ \E t \in Threads : CryptoSend(t)
    \/ \E t \in Threads, resp \in UpstreamResponses, e \in JsonErrorClasses :
          CryptoReceive(t, resp, e)
    \/ \E t \in Threads : CryptoRespond(t)
    \/ \E t \in Threads : Finish(t)

InitPool == Init /\ workload = "crypto"

SpecPool == InitPool /\ [][NextPool]_vars

\* ------------------------------------------------- demo-data endpoints
\* The handlers below are coroutines without an await: each runs from the
\* request to the response without another request in between.

\* GET /api/sales: load_data, the filters, head(limit).  `sales` is the
\* data set a generation inside load_data would make.
GetSales(t, r, sales) ==
    /\ pc[t] = "idle"
    /\ workload = "data"
    /\ calls < CallLimit
    /\ calls' = calls + 1
    /\ req' = [req EXCEPT ![t] = r]
    /\ LET l == load_data(main_cached_data, files, generated, csv_reads, sales)
       IN /\ main_cached_data' = l.data
          /\ files' = l.dir
          /\ generated' = l.generated
          /\ csv_reads' = l.csv_reads
          /\ http' = [http EXCEPT ![t] = get_sales(l.data, r)]
    /\ pc' = [pc EXCEPT ![t] = "responded"]
    /\ UNCHANGED <<clockVars, workload, wake, outcome, idx, all_data, own,
                   cryptoVars, wbVars, server_logs>>
    /\ UNCHANGED auxVars

\* GET /api/inventory, /api/stats: load_data, then the records.
GetRecords(t, r, sales) ==
    /\ pc[t] = "idle"
    /\ workload = "data"
    /\ calls < CallLimit
    /\ calls' = calls + 1
    /\ req' = [req EXCEPT ![t] = r]
    /\ LET l == load_data(main_cached_data, files, generated, csv_reads, sales)
       IN /\ main_cached_data' = l.data
          /\ files' = l.dir
          /\ generated' = l.generated
          /\ csv_reads' = l.csv_reads
          /\ http' = [http EXCEPT ![t] = get_records(l.data)]
    /\ pc' = [pc EXCEPT ![t] = "responded"]
    /\ UNCHANGED <<clockVars, workload, wake, outcome, idx, all_data, own,
                   cryptoVars, wbVars, server_logs>>
    /\ UNCHANGED auxVars

\* GET /api/files/{filename} and /api/files/{filename}/stats.
GetFile(t, r) ==
    /\ pc[t] = "idle"
    /\ workload = "data"
    /\ calls < CallLimit
    /\ calls' = calls + 1
    /\ req' = [req EXCEPT ![t] = r]
    /\ http' = [http EXCEPT ![t] = get_file(files, r)]
    /\ pc' = [pc EXCEPT ![t] = "responded"]
    /\ UNCHANGED <<clockVars, workload, dataVars, wake, outcome, idx, all_data,
                   own, cryptoVars, wbVars, server_logs>>
    /\ UNCHANGED auxVars

\* POST /api/regenerate: cached_data = generator.generate_all_data().
RegenerateData(t, sales) ==
    /\ pc[t] = "idle"
    /\ workload = "data"
    /\ calls < CallLimit
    /\ calls' = calls + 1
    /\ req' = [req EXCEPT ![t] = RegenerateRequest]
    /\ LET g == generate_all_data(files, generated + 1, sales)
       IN /\ main_cached_data' = g.data
          /\ files' = g.dir
    /\ generated' = generated + 1
    /\ http' = [http EXCEPT ![t] =
                   [status |-> 200, data |-> "regenerated",
                    last_update |-> NoneTime]]
    /\ pc' = [pc EXCEPT ![t] = "responded"]
    /\ UNCHANGED <<clockVars, workload, csv_reads, wake, outcome, idx,
                   all_data, own, cryptoVars, wbVars, server_logs>>
    /\ UNCHANGED auxVars

\* GET /api/server-logs: {"logs": server_logs}.
GetServerLogs(t) ==
    /\ pc[t] = "idle"
    /\ workload = "logs"
    /\ calls < CallLimit
    /\ calls' = calls + 1
    /\ req' = [req EXCEPT ![t] = ServerLogsRequest]
    /\ http' = [http EXCEPT ![t] =
                   [status |-> 200, data |-> server_logs,
                    last_update |-> NoneTime]]
    /\ pc' = [pc EXCEPT ![t] = "responded"]
    /\ UNCHANGED <<clockVars, workload, dataVars, wake, outcome, idx, all_data,
                   own, cryptoVars, wbVars, server_logs>>
    /\ UNCHANGED auxVars

\* The demo-data endpoints, served one request after the other.
NextData ==
    \/ \E r \in SalesRequests, s \in SalesTables :
          Quiet(Worker) /\ GetSales(Worker, r, s)
    \/ \E e \in ReadEndpoints \ {"sales"}, s \in SalesTables :
          Quiet(Worker) /\ GetRecords(Worker, [endpoint |-> e], s)
    \/ \E r \in FileRequests : Quiet(Worker) /\ GetFile(Worker, r)
    \/ \E s \in SalesTables : Quiet(Worker) /\ RegenerateData(Worker, s)
    \/ \E t \in Threads : Finish(t)

InitData == \E dir \in DataDirs : InitRun("data", dir)

SpecData == InitData /\ [][NextData]_vars

\* The run that fills the server log.  The requests follow each other
\* within the second; only the first one goes upstream, so no call sleeps.
NextLogs ==
    \/ \E r \in LogsRequests : Quiet(Worker) /\ WBEconCall(Worker, r)
    \/ Quiet(Worker) /\ GetServerLogs(Worker)
    \/ \E t \in Threads : WBLookup(t)
    \/ \E t \in Threads : WBRead(t)
    \/ \E t \in Threads : WBRateLimitRead(t)
    \/ \E t \in Threads : WBStamp(t)
    \/ \E t \in Threads : WBSend(t)
    \/ \E t \in Threads, resp \in WBResponses : WBReceive(t, resp)
    \/ \E t \in Threads : WBRespond(t)
    \/ \E t \in Threads : Finish(t)

InitLogs == InitRun("logs", EmptyDataDir)

SpecLogs == InitLogs /\ [][NextLogs]_vars

\* GET /api/trends: load_data, then the date filters and the aggregation.
\* `sales` is the data set a generation inside load_data would make.
GetTrends(t, r, sales) ==
    /\ pc[t] = "idle"
    /\ workload = "trends"
    /\ calls < CallLimit
    /\ calls' = calls + 1
    /\ req' = [req EXCEPT ![t] = r]
    /\ LET l == load_data(main_cached_data, files, generated, csv_reads, sales)
       IN /\ main_cached_data' = l.data
          /\ files' = l.dir
          /\ generated' = l.generated
          /\ csv_reads' = l.csv_reads
          /\ http' = [http EXCEPT ![t] = get_trends(l.data, r)]
    /\ pc' = [pc EXCEPT ![t] = "responded"]
    /\ UNCHANGED <<clockVars, workload, wake, outcome, idx, all_data, own,
                   cryptoVars, wbVars, server_logs>>
    /\ UNCHANGED auxVars

\* /api/trends on a fresh checkout: the first request generates the data
\* set, the later ones read its files and generate nothing.
NextTrends ==
    \/ /\ ~(\A f \in RequiredFiles : Exists(files, f))
       /\ \E r \in DemoTrendsRequests, d \in GenDraws :
             Quiet(Worker) /\ GetTrends(Worker, r, generate_sales_data(d))
    \/ /\ \A f \in RequiredFiles : Exists(files, f)
       /\ \E r \in DemoTrendsRequests :
             Quiet(Worker) /\ GetTrends(Worker, r, <<>>)
    \/ \E t \in Threads : Finish(t)

InitTrends == InitRun("trends", EmptyDataDir)

SpecTrends == InitTrends /\ [][NextTrends]_vars

\* provider.analyze_economic_health(normalized_data), as
\* /api/worldbank/economic-health calls it on the frame it has fetched.
AnalyzeHealth(t, df) ==
    /\ pc[t] = "idle"
    /\ workload = "health"
    /\ calls < CallLimit
    /\ calls' = calls + 1
    /\ req' = [req EXCEPT ![t] = AnalyzeRequest(df)]
    /\ http' = [http EXCEPT ![t] =
                   [status |-> 200, data |-> analyze_economic_health(df),
                    last_update |-> NoneTime]]
    /\ pc' = [pc EXCEPT ![t] = "responded"]
    /\ UNCHANGED <<clockVars, workload, dataVars, wake, outcome, idx, all_data,
                   own, cryptoVars, wbVars, server_logs>>
    /\ UNCHANGED auxVars

\* The health analysis applied to one frame after the other.
NextHealth ==
    \/ \E df \in HealthFrames : Quiet(Worker) /\ AnalyzeHealth(Worker, df)
    \/ \E t \in Threads : Finish(t)

InitHealth == InitRun("health", EmptyDataDir)

SpecHealth == InitHealth /\ [][NextHealth]_vars

\* ------------------------------------------------------------ properties
CryptoEndpoints == {"markets", "history", "global"}
AnalysisEndpoints == {"normalized", "economic-health"}

\* Thread t begins to serve a request in this step.
Starts(t) == pc[t] = "idle" /\ pc'[t] # "idle"

\* C1 (cache shielding): a call whose key has an entry stored less than the
\* TTL ago returns the stored value and goes neither to the rate limiter
\* nor upstream: a crypto call returns at once with the entry's data, and
\* get_economic_indicators on the shared provider goes on to read the entry.
C1_CacheShielding ==
    [][\A t \in Threads :
          /\ (/\ Starts(t)
              /\ req'[t].endpoint \in CryptoEndpoints
              /\ Crypto_is_cache_valid(crypto_cache, CryptoKeyOf(req'[t])))
                => /\ pc'[t] = "returned"
                   /\ outcome'[t].kind = "return"
                   /\ outcome'[t].val = crypto_cache[CryptoKeyOf(req'[t])].data
          /\ (/\ pc[t] = "wb_lookup"
              /\ pc'[t] # "wb_lookup"
              /\ req[t].endpoint = "indicators"
              /\ WB_is_cache_valid(wb_cache, WBKeyOf(req[t])))
                => pc'[t] = "wb_read"]_vars

\* The upstream is unavailable: no answer in time, no connection, an error
\* status.
Unavailable(a) ==
    \/ a.kind \in {"timeout", "connection_error"}
    \/ a.kind = "http" /\ a.status # 200
\* The upstream answers 200 with an empty list.
EmptyPayload(a) == a.kind = "http" /\ a.status = 200 /\ a.body = "list_empty"

\* A provider call of thread t has just completed after an upstream answer.
CryptoCompleted(t) ==
    pc[t] = "returned" /\ req[t].endpoint \in CryptoEndpoints
        /\ answer[t].kind # "none"
EconCompleted(t) ==
    pc[t] = "returned" /\ req[t].endpoint \in EconEndpoints
        /\ answer[t].kind = "worldbank"

\* C2 as the spec states it (graceful degradation): when the upstream is
\* unavailable or its payload is empty, the provider call returns data that
\* is not empty, and raises nothing.
C2_SampleData ==
    \A t \in Threads :
        /\ (CryptoCompleted(t) /\ (Unavailable(answer[t]) \/ EmptyPayload(answer[t])))
              => /\ outcome[t].kind = "return"
                 /\ outcome[t].val \notin {"list_empty", None}
        /\ (EconCompleted(t) /\ all_data[t] = <<>>)
              => /\ outcome[t].kind = "return"
                 /\ ~IsEmptyFrame(outcome[t].val)

\* C2 as the code has it: there is no sample data.  When the upstream is
\* unavailable a crypto call raises; an empty list is returned as it is;
\* get_economic_indicators returns an empty DataFrame with the requested
\* columns when no indicator request delivered records.
C2_NoSampleData ==
    \A t \in Threads :
        /\ (CryptoCompleted(t) /\ Unavailable(answer[t]))
              => outcome[t].kind = "raise"
        /\ (CryptoCompleted(t) /\ EmptyPayload(answer[t]))
              => outcome[t] = Return("list_empty")
        /\ (EconCompleted(t) /\ all_data[t] = <<>>)
              => /\ outcome[t].kind = "return"
                 /\ IsEmptyFrame(outcome[t].val)
                 /\ outcome[t].val.columns =
                       BaseColumns \o indicator_names(IndicatorArg(req[t]))

\* A crypto call has raised on a timeout.
C2_Witness ==
    \E t \in Threads :
        /\ CryptoCompleted(t)
        /\ answer[t].kind = "timeout"
        /\ outcome[t] = Raise("Timeout")

\* The gaps between consecutive start times of a request log.
Spaced(reqs, interval) ==
    \A i \in 1..(Len(reqs) - 1) : reqs[i + 1] - reqs[i] >= interval

\* C3 (crypto minimum interval, calls that do not overlap): consecutive
\* upstream requests of the CryptoDataProvider start at least 5 seconds
\* apart, whatever methods they come from and however they end, and a call
\* that arrives earlier sleeps until 5 seconds after the last request.
C3_CryptoMinInterval ==
    /\ Spaced(crypto_reqs, CryptoMinRequestInterval)
    /\ \A t \in Threads :
          pc[t] = "sleeping" =>
              /\ wake[t] = crypto_last + CryptoMinRequestInterval
              /\ now < wake[t]

\* The second request started exactly 5 seconds after the first with no
\* clock step in between but the sleep.
C3_Witness ==
    /\ Len(crypto_reqs) = 2
    /\ crypto_reqs[2] - crypto_reqs[1] = CryptoMinRequestInterval
    /\ ticks = 0

\* C4 (World Bank minimum interval): consecutive upstream requests of one
\* WorldBankDataProvider instance, the shared one or one a handler built,
\* start at least 10 seconds apart, the per-indicator requests of a single
\* call and those of get_country_comparison and get_trend_analysis included.
C4_WBMinInterval ==
    /\ Spaced(wb_reqs, WBMinRequestInterval)
    /\ \A t \in Threads : Spaced(own[t].reqs, WBMinRequestInterval)

\* C5 (no contention in the thread pool): no two upstream requests of the
\* shared CryptoDataProvider, from whichever threads, start less than the
\* minimum interval apart.
C5_NoContention ==
    \A i, j \in DOMAIN crypto_reqs :
        i < j => crypto_reqs[j] - crypto_reqs[i] >= CryptoMinRequestInterval

\* C6 (shielding on /normalized and /economic-health): a request to one of
\* them whose key was fetched with records less than 1800 seconds ago finds
\* the entry in its provider's cache and is served from it.
C6_AnalysisShielding ==
    [][\A t \in Threads :
          (/\ pc[t] = "wb_lookup"
           /\ pc'[t] # "wb_lookup"
           /\ req[t].endpoint \in AnalysisEndpoints
           /\ WBKeyOf(req[t]) \in DOMAIN fetched
           /\ now - fetched[WBKeyOf(req[t])] < WBCacheTtl)
              => pc'[t] = "wb_read"]_vars

\* A call of thread t on the shared provider returns from its upstream
\* request in this step, having saved what it returns.
CryptoFetched(t) ==
    pc[t] = "in_flight" /\ pc'[t] = "returned" /\ outcome'[t].kind = "return"
WBFetched(t) ==
    pc[t] = "wb_in_flight" /\ pc'[t] = "returned"
        /\ req[t].endpoint = "indicators"

\* C7 as the spec states it (bounded cache): whatever the requests, a cache
\* holds fewer entries than a bound that does not depend on them; here,
\* fewer than the number of requests served.
C7_BoundedCache ==
    /\ Cardinality(DOMAIN crypto_cache) < MaxCalls
    /\ Cardinality(DOMAIN wb_cache) < MaxCalls

\* C7 as the code has it: a cache holds one entry per distinct key fetched,
\* with no bound of its own: every fetch of a key that has no entry adds
\* one, so the number of entries is bounded by the number of calls only.
C7_OneEntryPerKey ==
    /\ [](/\ Cardinality(DOMAIN crypto_cache) <= calls
          /\ Cardinality(DOMAIN wb_cache) <= calls)
    /\ [][\A t \in Threads :
             /\ CryptoFetched(t) =>
                   DOMAIN crypto_cache' =
                      DOMAIN crypto_cache \cup {CryptoKeyOf(req[t])}
             /\ WBFetched(t) =>
                   DOMAIN wb_cache' = DOMAIN wb_cache \cup {WBKeyOf(req[t])}]_vars

\* Every request served has left an entry of its own.
C7_Witness ==
    /\ calls = MaxCalls
    /\ Cardinality(DOMAIN crypto_cache) = calls

\* A step that keeps every entry of the shared caches, but for clear_cache,
\* and that changes an entry only when a fetch of its key returns; with
\* needRecords, only when that fetch obtained records.
NoEvictionStep(needRecords) ==
    /\ DOMAIN crypto_cache \subseteq DOMAIN crypto_cache'
    /\ \/ DOMAIN wb_cache \subseteq DOMAIN wb_cache'
       \/ \E t \in Threads : Starts(t) /\ req'[t] = ClearCacheRequest
    /\ \A k \in DOMAIN crypto_cache :
          crypto_cache'[k] # crypto_cache[k] =>
              \E t \in Threads : CryptoFetched(t) /\ CryptoKeyOf(req[t]) = k
    /\ \A k \in DOMAIN wb_cache \cap DOMAIN wb_cache' :
          wb_cache'[k] # wb_cache[k] =>
              \E t \in Threads :
                  /\ WBFetched(t)
                  /\ WBKeyOf(req[t]) = k
                  /\ needRecords => ~IsEmptyFrame(outcome'[t].val)

\* C8 as the spec states it (no eviction): no entry is removed because of
\* age or size, the key sets only grow (but for clear_cache), and an entry
\* is overwritten only by a later successful fetch of the same key.
C8_NoEviction == [][NoEvictionStep(TRUE)]_vars

\* C8 as the code has it: the same, but a World Bank entry is overwritten
\* by every later fetch of its key that runs to its end, also one whose
\* indicator requests all failed and that saves an empty DataFrame.
C8_NoEvictionAnyFetch == [][NoEvictionStep(FALSE)]_vars

\* An entry that had records was overwritten, after it expired, by the
\* empty DataFrame of a failed fetch.
C8_Witness ==
    \E k \in DOMAIN wb_cache \cap DOMAIN fetched :
        /\ IsEmptyFrame(wb_cache[k].data)
        /\ wb_cache[k].time >= fetched[k] + WBCacheTtl

\* C9 (no request coalescing): a call that misses the cache goes to the
\* rate limiter and then upstream whatever the other threads are doing, a
\* request in flight for the same key included; every thread that missed
\* starts an upstream request of its own.
C9_NoCoalescing ==
    [][\A t \in Threads :
          /\ (/\ Starts(t)
              /\ req'[t].endpoint \in CryptoEndpoints
              /\ Crypto_get_from_cache(crypto_cache, CryptoKeyOf(req'[t])) = None)
                => pc'[t] = "rate_limit"
          /\ (pc[t] = "stamp" /\ pc'[t] # "stamp")
                => /\ pc'[t] = "in_flight"
                   /\ crypto_reqs' = Append(crypto_reqs, now)]_vars

\* Two upstream requests for the same key are in flight.
C9_Witness ==
    \E t, u \in Threads :
        /\ t # u
        /\ pc[t] = "in_flight"
        /\ pc[u] = "in_flight"
        /\ CryptoKeyOf(req[t]) = CryptoKeyOf(req[u])
        /\ Len(crypto_reqs) = 2

\* The upstream failures of C10: unavailable, or, for get_market_data, JSON
\* that is not a list.
UpstreamFailure(r, a) ==
    \/ Unavailable(a)
    \/ /\ r.endpoint = "markets"
       /\ a.kind = "http" /\ a.status = 200 /\ a.body # "invalid"
       /\ ~IsList(ParseJson(a.body))

\* C10 (crypto calls raise on upstream failure and leave the cache as it
\* was): a call whose upstream request fails raises, and the cache changes
\* in no step but the one in which a call returns fetched data.
C10_RaiseAndKeepCache ==
    [][/\ \A t \in Threads :
             (/\ pc[t] = "in_flight"
              /\ pc'[t] = "returned"
              /\ UpstreamFailure(req[t], answer'[t]))
                => /\ outcome'[t].kind = "raise"
                   /\ crypto_cache' = crypto_cache
       /\ crypto_cache' # crypto_cache
             => \E t \in Threads : CryptoFetched(t)]_vars

\* A call has raised on a 429 answer, with an entry in the cache.
C10_Witness ==
    \E t \in Threads :
        /\ pc[t] = "returned"
        /\ answer[t] = Http(429, "")
        /\ outcome[t].kind = "raise"
        /\ crypto_cache # <<>>

\* C11 (World Bank indicator fetch never raises): get_economic_indicators
\* always returns a DataFrame, whatever the upstream answers; when no
\* indicator request delivered records the frame is empty, and
\* /api/worldbank/indicators answers an empty frame with HTTP 200 and the
\* empty structure (no data, no columns) instead of an error.
C11_NeverRaises ==
    \A t \in Threads :
        /\ (pc[t] \in {"returned", "responded"} /\ req[t].endpoint \in EconEndpoints)
              => /\ outcome[t].kind = "return"
                 /\ outcome[t].val.columns \in Seq(STRING)
        /\ (EconCompleted(t) /\ all_data[t] = <<>>)
              => /\ outcome[t].kind = "return"
                 /\ IsEmptyFrame(outcome[t].val)
        /\ (/\ pc[t] = "responded"
            /\ req[t].endpoint = "indicators"
            /\ outcome[t].kind = "return"
            /\ IsEmptyFrame(outcome[t].val))
              => http[t] = [status |-> 200, data |-> Frame(<<>>, <<>>),
                            last_update |-> NoneTime]

\* /api/worldbank/indicators has answered the empty structure after every
\* indicator request of the call failed.
C11_Witness ==
    \E t \in Threads :
        /\ pc[t] = "responded"
        /\ req[t].endpoint = "indicators"
        /\ answer[t] = WBAnswer("error")
        /\ all_data[t] = <<>>
        /\ http[t].status = 200
        /\ http[t].data = Frame(<<>>, <<>>)

\* C12 as the spec states it (missing or non-CSV files): GET
\* /api/files/{filename} and /api/files/{filename}/stats answer 404 when
\* the file does not exist or its name does not end with .csv.
C12_NotFound ==
    \A t \in Threads :
        (/\ pc[t] = "responded"
         /\ req[t].endpoint \in FileEndpoints
         /\ (~Exists(files, req[t].filename) \/ ~EndsWithCsv(req[t].filename)))
            => http[t].status = 404

\* C13 as the spec states it (unknown comparison indicator): the request
\* is answered with 400, and no upstream request is made for it.
C13_BadRequest ==
    \A t \in Threads :
        (/\ pc[t] = "responded"
         /\ req[t].endpoint = "comparison"
         /\ req[t].indicator \notin IndicatorNames)
            => /\ http[t].status = 400
               /\ own[t].reqs = <<>>

\* The records of get_sales's answer satisfy the filters of the request.
Satisfies(x, r) ==
    /\ r.start_date # NoDate => x.date >= r.start_date
    /\ r.end_date # NoDate => x.date <= r.end_date
    /\ r.category # None => x.category = r.category
    /\ r.region # None => x.region = r.region

\* s is the beginning of the sequence of the records of `rows` that
\* satisfy the filters of r, in the order of `rows`.
FirstMatching(s, rows, r) ==
    \E pick \in SUBSET (1..Len(rows)) :
        /\ \A i \in 1..Len(rows) :
              i \in pick <=>
                 /\ Satisfies(rows[i], r)
                 /\ Cardinality({j \in 1..i : Satisfies(rows[j], r)}) <= Len(s)
        /\ Len(s) = Cardinality(pick)
        /\ \A i \in pick :
              s[Cardinality({j \in 1..i : Satisfies(rows[j], r)})] = rows[i]

\* C14 as the spec states it (sales filtering): for every combination of
\* the filters and every integer limit, GET /api/sales returns at most
\* `limit` records, each satisfies every filter supplied, and they are the
\* first ones, in stored order, among the records that satisfy the filters.
C14_SalesFiltering ==
    \A t \in Threads :
        (/\ pc[t] = "responded"
         /\ req[t].endpoint = "sales"
         /\ http[t].status = 200)
            => /\ Len(http[t].data.rows) <= req[t].limit
               /\ \A i \in DOMAIN http[t].data.rows :
                     Satisfies(http[t].data.rows[i], req[t])
               /\ FirstMatching(http[t].data.rows, main_cached_data.sales,
                                req[t])

\* The same for the limits that are not negative.
SalesFilteringNonNegative ==
    \A t \in Threads :
        (/\ pc[t] = "responded"
         /\ req[t].endpoint = "sales"
         /\ http[t].status = 200
         /\ req[t].limit >= 0)
            => /\ Len(http[t].data.rows) <= req[t].limit
               /\ \A i \in DOMAIN http[t].data.rows :
                     Satisfies(http[t].data.rows[i], req[t])
               /\ FirstMatching(http[t].data.rows, main_cached_data.sales,
                                req[t])

\* C15 (server log bound): server_logs never holds more than 100 entries;
\* an added entry goes to the end and, once the log is full, pushes the
\* oldest entries out, so the log holds the most recently added entries in
\* the order they were added; GET /api/server-logs answers the log as it
\* is, hence never more than 100 entries.
C15_LogBound ==
    [][/\ Len(server_logs') <= LogCap
       /\ server_logs' # server_logs =>
             LET n == Len(server_logs)
                 m == Len(server_logs')
             IN /\ m = Min(n + 1, LogCap)
                /\ \A i \in 1..(m - 1) :
                      server_logs'[i] = server_logs[n - (m - 1) + i]
       /\ \A t \in Threads :
             (Starts(t) /\ req'[t] = ServerLogsRequest)
                => /\ http'[t].data = server_logs
                   /\ Len(http'[t].data) <= LogCap]_vars

\* The log is full and has lost its oldest entries (its second entry was
\* the "worldbank_request" of the first fetch), and /api/server-logs has
\* answered it.
C15_Witness ==
    \E t \in Threads :
        /\ pc[t] = "responded"
        /\ req[t] = ServerLogsRequest
        /\ Len(server_logs) = LogCap
        /\ server_logs[1] = "request"
        /\ server_logs[2] = "request"
        /\ http[t].data = server_logs

\* C16 (clear cache): POST /api/clear-cache empties the cache of the shared
\* World Bank provider and answers 200, and leaves _last_request_time, the
\* crypto cache, server_logs and the CSV data as they are; with the cache
\* empty, the next /api/worldbank/indicators request goes on to the rate
\* limiter and upstream, whatever its key.
C16_ClearCache ==
    [][\A t \in Threads :
          /\ (Starts(t) /\ req'[t] = ClearCacheRequest)
                => /\ wb_cache' = <<>>
                   /\ http'[t].status = 200
                   /\ UNCHANGED <<wb_last, crypto_cache, server_logs, files,
                                  main_cached_data>>
          /\ (/\ pc[t] = "wb_lookup"
              /\ pc'[t] # "wb_lookup"
              /\ req[t].endpoint = "indicators"
              /\ wb_cache = <<>>)
                => pc'[t] = "wb_rate_limit"]_vars

\* The cache of the shared provider, filled by an earlier request, has been
\* cleared.
C16_Witness ==
    \E t \in Threads :
        /\ pc[t] = "responded"
        /\ req[t] = ClearCacheRequest
        /\ wb_reqs # <<>>
        /\ fetched # <<>>
        /\ wb_last # 0
        /\ wb_cache = <<>>


\* The read endpoints of the demo data.
ReadsData(r) == r.endpoint \in ReadEndpoints

\* C17 (regenerate): POST /api/regenerate makes a new data set and writes
\* it to the five CSV files; every later read endpoint answers from the
\* data set generated last, never from an earlier one, and generates
\* nothing itself.
C17_Regenerate ==
    [][\A t \in Threads :
          /\ (Starts(t) /\ req'[t] = RegenerateRequest)
                => /\ http'[t].status = 200
                   /\ generated' = generated + 1
                   /\ main_cached_data'.version = generated'
                   /\ \A f \in RequiredFiles :
                         /\ Exists(files', f)
                         /\ files'[f].version = generated'
                         /\ files'[f].sales = main_cached_data'.sales
          /\ (Starts(t) /\ ReadsData(req'[t]) /\ generated > 0)
                => /\ generated' = generated
                   /\ files' = files
                   /\ http'[t].status = 200
                   /\ http'[t].data.version = generated
                   /\ http'[t].data.rows =
                         IF req'[t].endpoint = "sales"
                            THEN DataFrame_head(
                                    FilterSales(files["sales.csv"].sales, req'[t]),
                                    req'[t].limit)
                            ELSE files["sales.csv"].sales]_vars

\* A read endpoint has answered from the regenerated data set, in a data
\* directory that held the files of an earlier run.
C17_Witness ==
    \E t \in Threads :
        /\ pc[t] = "responded"
        /\ ReadsData(req[t])
        /\ Exists(files, "notes.txt")
        /\ generated = 1
        /\ http[t].status = 200
        /\ http[t].data.version = 1
        /\ files["sales.csv"].version = 1

\* C18 as the spec states it (demo-data cache): once load_data has
\* populated cached_data, a later load_data returns the cached value: it
\* neither reads the CSV files again nor generates again.
C18_DemoDataCache ==
    [][\A t \in Threads :
          (Starts(t) /\ ReadsData(req'[t]) /\ main_cached_data # NoData)
             => /\ csv_reads' = csv_reads
                /\ generated' = generated
                /\ main_cached_data' = main_cached_data]_vars

\* C19 as the spec states it (last_update matches the data): when
\* /api/crypto/markets or /api/crypto/global answers 200, or
\* /api/worldbank/indicators answers 200 with data, last_update is not null
\* and is the timestamp of the cache entry that holds exactly the data of
\* the answer, also with other requests for the key running at the same
\* time.
C19_LastUpdateMatches ==
    [][\A t \in Threads :
          /\ (/\ pc[t] = "returned"
              /\ pc'[t] = "responded"
              /\ req[t].endpoint \in {"markets", "global"}
              /\ http'[t].status = 200)
                => LET k == CryptoKeyOf(req[t])
                   IN /\ http'[t].last_update # NoneTime
                      /\ k \in DOMAIN crypto_cache
                      /\ crypto_cache[k].time = http'[t].last_update
                      /\ crypto_cache[k].data = http'[t].data
          /\ (/\ pc[t] = "returned"
              /\ pc'[t] = "responded"
              /\ req[t].endpoint = "indicators"
              /\ http'[t].status = 200
              /\ ~IsEmptyFrame(http'[t].data))
                => LET k == WBKeyOf(req[t])
                   IN /\ http'[t].last_update # NoneTime
                      /\ k \in DOMAIN wb_cache
                      /\ wb_cache[k].time = http'[t].last_update
                      /\ wb_cache[k].data = http'[t].data]_vars

\* C20 (failed World Bank fetches are cached): when every per-indicator
\* request of a get_economic_indicators call has failed, the empty frame
\* is saved under the key of the call with the time of the call; a later
\* lookup of the key on the same provider within 1800 s goes to the cache,
\* and the call returns the entry's frame without an upstream request.
C20_FailedFetchCached ==
    [][\A t \in Threads :
          LET k == WBKeyOf(req[t])
          IN /\ (/\ pc[t] = "wb_in_flight"
                 /\ pc'[t] = "returned"
                 /\ req[t].endpoint = "indicators"
                 /\ all_data'[t] = <<>>)
                   => /\ outcome'[t].kind = "return"
                      /\ IsEmptyFrame(outcome'[t].val)
                      /\ k \in DOMAIN wb_cache'
                      /\ wb_cache'[k] = [time |-> now, data |-> outcome'[t].val]
             /\ (/\ pc[t] = "wb_lookup"
                 /\ pc'[t] # "wb_lookup"
                 /\ req[t].endpoint = "indicators"
                 /\ k \in DOMAIN wb_cache
                 /\ IsEmptyFrame(wb_cache[k].data)
                 /\ now - wb_cache[k].time < WBCacheTtl)
                   => pc'[t] = "wb_read"
             /\ (/\ pc[t] = "wb_read"
                 /\ pc'[t] # "wb_read"
                 /\ req[t].endpoint = "indicators"
                 /\ k \in DOMAIN wb_cache)
                   => /\ outcome'[t] = Return(wb_cache[k].data)
                      /\ pc'[t] = "returned"
                      /\ wb_reqs' = wb_reqs]_vars

\* A /indicators call has returned the empty frame an earlier, failed call
\* saved, without an upstream request of its own.
C20_Witness ==
    \E t \in Threads :
        /\ pc[t] = "returned"
        /\ req[t].endpoint = "indicators"
        /\ answer[t] = NoAnswer
        /\ outcome[t].kind = "return"
        /\ IsEmptyFrame(outcome[t].val)
        /\ WBKeyOf(req[t]) \in DOMAIN wb_cache
        /\ now > wb_cache[WBKeyOf(req[t])].time
        /\ WBKeyOf(req[t]) \notin DOMAIN fetched

\* ---------------------------------------------------------------------
\* Claims on the trend aggregation, the health score and the generated data

\* Two days of one calendar week (weeks run from Monday to Sunday), of one
\* calendar month.
SameWeek(d, e) == (d - 1) \div 7 = (e - 1) \div 7
SameMonth(d, e) == (d >= FirstOfMonth) = (e >= FirstOfMonth)

\* The daily trend records of the data set that pass the date filters of
\* the request r.
FilteredDaily(r) ==
    SelectSeq(main_cached_data.trends,
              LAMBDA x : /\ r.start_date = NoDate \/ x.date >= r.start_date
                         /\ r.end_date = NoDate \/ x.date <= r.end_date)

\* C21 (trend aggregation conserves totals): a weekly or monthly answer of
\* GET /api/trends has one record per calendar week or month of the
\* date-filtered daily records, each total_revenue, total_profit and
\* total_sales is the sum over the daily records of that week or month, and
\* the sum of each field over the answer equals its sum over the filtered
\* daily records; for any other period the filtered daily records are
\* returned as they are.
C21_TrendTotals ==
    \A t \in Threads :
        (/\ pc[t] = "responded"
         /\ req[t].endpoint = "trends"
         /\ http[t].status = 200)
            => LET daily == FilteredDaily(req[t])
                   out == http[t].data.rows
                   Same(d, e) == IF req[t].period = "weekly" THEN SameWeek(d, e)
                                 ELSE SameMonth(d, e)
                   Group(k) == SelectSeq(daily,
                                         LAMBDA x : Same(x.date, out[k].date))
               IN IF req[t].period \in {"weekly", "monthly"}
                     THEN /\ \A i \in DOMAIN daily : \E k \in DOMAIN out :
                                Same(daily[i].date, out[k].date)
                          /\ \A k, m \in DOMAIN out :
                                Same(out[k].date, out[m].date) => k = m
                          /\ \A k \in DOMAIN out :
                                /\ Group(k) # <<>>
                                /\ \A f \in {"total_revenue", "total_profit",
                                             "total_sales"} :
                                      out[k][f] = SumField(Group(k), f)
                          /\ \A f \in {"total_revenue", "total_profit",
                                       "total_sales"} :
                                SumField(out, f) = SumField(daily, f)
                  ELSE out = daily

\* A weekly answer over three days has been given; two of the days fall into
\* one week, and two into one month.
C21_Witness ==
    \E t \in Threads :
        /\ pc[t] = "responded"
        /\ req[t].endpoint = "trends"
        /\ req[t].period = "weekly"
        /\ req[t].start_date = NoDate
        /\ req[t].end_date = NoDate
        /\ http[t].status = 200
        /\ Len(main_cached_data.trends) = 3
        /\ Len(http[t].data.rows) = 2
        /\ http[t].data.rows[2].total_sales >
              main_cached_data.trends[3].total_sales
        /\ AggregateTrends(main_cached_data.trends, "M")[1].total_sales >
              main_cached_data.trends[1].total_sales

\* C23 (generated data is internally consistent): in the data set of one
\* generate_all_data run the sales ids are 1..N in order, without gaps or
\* repeats; the trend records are in strictly increasing date order, with
\* exactly one record for each date that has a sale and none for any other
\* date; and the total_sales of the trend records add up to the total_sales
\* of the statistics, which is the sum of the quantities of all sales.
C23_GeneratedConsistent ==
    main_cached_data.form = "models"
        => LET sales == main_cached_data.sales
               trends == main_cached_data.trends
               stats == main_cached_data.stats
           IN /\ {sales[i].id : i \in DOMAIN sales} = 1..Len(sales)
              /\ \A i \in DOMAIN sales : sales[i].id = i
              /\ \A k \in 1..(Len(trends) - 1) :
                    trends[k].date < trends[k + 1].date
              /\ {trends[k].date : k \in DOMAIN trends} =
                    {sales[i].date : i \in DOMAIN sales}
              /\ SumField(trends, "total_sales") = stats.total_sales
              /\ stats.total_sales = SumField(sales, "quantity")

\* A run has generated sales on three days, more than one on a day, and
\* not all of quantity 1.
C23_Witness ==
    /\ main_cached_data.form = "models"
    /\ generated = 1
    /\ Len(main_cached_data.trends) = GenDays
    /\ Len(main_cached_data.sales) > GenDays
    /\ main_cached_data.stats.total_sales > Len(main_cached_data.sales)
    /\ \E i, j \in DOMAIN main_cached_data.sales :
          /\ i # j
          /\ main_cached_data.sales[i].date = main_cached_data.sales[j].date
          /\ main_cached_data.sales[i].quantity #
                main_cached_data.sales[j].quantity

\* The band scores.
Bands == {20, 40, 60, 80, 100}

\* C22 (economic health score): the analysis has an entry for every country
\* of the input.  Its health_score is the sum, over the indicators present
\* in the country's last row, of a band score in {20, 40, 60, 80, 100}
\* weighted 30% (GDP per capita), 25% (inflation), 25% (unemployment) and
\* 20% (life expectancy), so it lies between 0 and 100; health_level is
\* Excellent from 80, Good from 60, Medium from 40, Poor from 20 and
\* Critical below; with all four indicators present the score is at least
\* 20.
C22_HealthScore ==
    \A t \in Threads :
        (pc[t] = "responded" /\ req[t].endpoint = "analyze_economic_health")
            => LET df == req[t].df
                   analysis == http[t].data
               IN \A i \in DOMAIN df :
                     LET c == df[i].Country
                         last == CHOOSE j \in DOMAIN df :
                                    /\ df[j].Country = c
                                    /\ \A k \in DOMAIN df :
                                          df[k].Country = c => k <= j
                         Present(n) == df[last][n] # NaN
                         Part(n, band) == IF Present(n) THEN band ELSE 0
                     IN /\ c \in DOMAIN analysis
                        /\ \E g, f, u, l \in Bands :
                              100 * analysis[c].health_score =
                                 30 * Part("GDP_PER_CAPITA", g)
                                 + 25 * Part("INFLATION", f)
                                 + 25 * Part("UNEMPLOYMENT", u)
                                 + 20 * Part("LIFE_EXPECTANCY", l)
                        /\ analysis[c].health_score >= 0
                        /\ analysis[c].health_score <= 100
                        /\ analysis[c].health_level =
                              IF analysis[c].health_score >= 80 THEN "Excellent"
                              ELSE IF analysis[c].health_score >= 60 THEN "Good"
                              ELSE IF analysis[c].health_score >= 40 THEN "Medium"
                              ELSE IF analysis[c].health_score >= 20 THEN "Poor"
                              ELSE "Critical"
                        /\ (\A n \in {"GDP_PER_CAPITA", "INFLATION",
                                      "UNEMPLOYMENT", "LIFE_EXPECTANCY"} :
                               Present(n))
                              => analysis[c].health_score >= 20

\* A frame of two countries has been analyzed: the one with all four
\* indicators in the lowest band scores exactly 20 and is Poor, the other
\* scores 100.
C22_Witness ==
    \E t \in Threads :
        /\ pc[t] = "responded"
        /\ req[t].endpoint = "analyze_economic_health"
        /\ DOMAIN http[t].data = {"UA", "US"}
        /\ \A n \in {"GDP_PER_CAPITA", "INFLATION", "UNEMPLOYMENT",
                     "LIFE_EXPECTANCY"} : req[t].df[2][n] # NaN
        /\ http[t].data["UA"].health_score = 20
        /\ http[t].data["UA"].health_level = "Poor"
        /\ http[t].data["US"].health_score = 100

\* A country without any of the four indicators has been analyzed: its
\* score is 0 and its level Critical.
C22_WitnessMissing ==
    \E t \in Threads :
        /\ pc[t] = "responded"
        /\ req[t].endpoint = "analyze_economic_health"
        /\ http[t].data["UA"].health_score = 0
        /\ http[t].data["UA"].health_level = "Critical"

====
